---- MODULE Spec2Model ----
(***************************************************************************)
(* A model of typed-uri-template: the RFC 6570 URI Template compiler       *)
(* (templateParser), the expansion engine (URITemplate.serialize) and the  *)
(* two escaping functions (escape, doNotEscape).                           *)
(*                                                                         *)
(* A JavaScript string is modelled as a sequence of one-character strings, *)
(* so that substring, split, regular expressions and percent-encoding are  *)
(* computed character by character as the code computes them.              *)
(***************************************************************************)
EXTENDS Integers, Sequences, FiniteSets, TLC

VARIABLES
    _template,  \* URITemplate._template: the text given to the constructor
    _matchers,  \* URITemplate._matchers: variable name -> ParameterMatcher
    _parts,     \* URITemplate._parts: the compiled parts
    params,     \* the argument of the last serialize call
    result,     \* the outcome of the last serialize call (a string or a YError)
    escFn,      \* the escaping function last applied on its own
    escIn,      \* its argument
    escOut,     \* its result
    thrown,     \* how the constructor ended: it returned, or the YError it threw
    described,  \* what the last toString call returned
    parseFn,    \* the matcher whose parse is called on its own
    parseIn,    \* the argument of that parse call
    parseOut    \* its outcome (a value or a YError)

vars == <<_template, _matchers, _parts, params, result, escFn, escIn, escOut,
          thrown, described, parseFn, parseIn, parseOut>>

-----------------------------------------------------------------------------
(* Bounds of the model.                                                    *)

\* the longest variable list of a substitution drawn by Init
MaxVars == 2
\* the longest string given to escape / doNotEscape on their own
MaxStrLen == 3
\* the longest leading literal of the templates of several parts
MaxLiteralLen == 2
\* the longest template text the constructor is given, a few longer ones apart
MaxTemplateLen == 4
\* the longest text given to a matcher's parse, a few longer ones apart
MaxTextLen == 3

-----------------------------------------------------------------------------
(* Strings as sequences of characters.                                     *)

Digits == {"0", "1", "2", "3", "4", "5", "6", "7", "8", "9"}

\* String.prototype.substring(0, n)
Substring0(s, n) == SubSeq(s, 1, IF n < Len(s) THEN n ELSE Len(s))

RECURSIVE Flatten(_)
\* Array.prototype.join('') of a sequence of strings
Flatten(ss) == IF ss = <<>> THEN <<>> ELSE Head(ss) \o Flatten(Tail(ss))

RECURSIVE JoinWith(_, _)
\* Array.prototype.join(sep)
JoinWith(ss, sep) ==
    IF ss = <<>> THEN <<>>
    ELSE IF Len(ss) = 1 THEN Head(ss)
    ELSE Head(ss) \o sep \o JoinWith(Tail(ss), sep)

\* String.prototype.indexOf(c) !== -1
Contains(s, c) == \E i \in 1..Len(s) : s[i] = c

\* the 1-based position of the first c in s (s contains c)
FirstIndexOf(s, c) == CHOOSE i \in 1..Len(s) : s[i] = c /\ \A j \in 1..(i - 1) : s[j] # c

RECURSIVE Split(_, _)
\* String.prototype.split(c): the segments between the occurrences of c
Split(s, c) ==
    IF ~Contains(s, c) THEN <<s>>
    ELSE LET i == FirstIndexOf(s, c)
         IN  <<SubSeq(s, 1, i - 1)>> \o Split(SubSeq(s, i + 1, Len(s)), c)

DigitValue(d) ==
    CASE d = "0" -> 0 [] d = "1" -> 1 [] d = "2" -> 2 [] d = "3" -> 3 [] d = "4" -> 4
      [] d = "5" -> 5 [] d = "6" -> 6 [] d = "7" -> 7 [] d = "8" -> 8 [] d = "9" -> 9

RECURSIVE ParseInt(_)
\* parseInt(s, 10) of a non-empty run of decimal digits
ParseInt(s) ==
    IF s = <<>> THEN 0
    ELSE 10 * ParseInt(SubSeq(s, 1, Len(s) - 1)) + DigitValue(s[Len(s)])

DigitChar(n) ==
    CASE n = 0 -> "0" [] n = 1 -> "1" [] n = 2 -> "2" [] n = 3 -> "3" [] n = 4 -> "4"
      [] n = 5 -> "5" [] n = 6 -> "6" [] n = 7 -> "7" [] n = 8 -> "8" [] n = 9 -> "9"

RECURSIVE NumberToString(_)
\* Number.prototype.toString() of a non-negative integer
NumberToString(n) ==
    IF n < 10 THEN <<DigitChar(n)>>
    ELSE NumberToString(n \div 10) \o <<DigitChar(n % 10)>>

-----------------------------------------------------------------------------
(* Percent-encoding: encodeURIComponent and encodeURI on ASCII text.       *)

\* the characters of the model and their code points
CharCodes ==
    [c \in {"a", "b", "e", "k", "l", "n", "v", "x", "y", "F",
            "c", "o", "p", "r", "s", "t", "u",
            "0", "1", "2", "5", "6", "-", "~", "_", ".",
            "!", "*", "'", "(", ")",
            ":", "/", "?", "#", "[", "]", "@", "&", "=", ",", ";", "+", "$",
            " ", "%", "<", "{", "}"} |->
        CASE c = "a" -> 97 [] c = "b" -> 98 [] c = "e" -> 101 [] c = "k" -> 107
          [] c = "l" -> 108 [] c = "n" -> 110 [] c = "v" -> 118
          [] c = "x" -> 120 [] c = "y" -> 121 [] c = "F" -> 70
          [] c = "c" -> 99 [] c = "o" -> 111 [] c = "p" -> 112 [] c = "r" -> 114
          [] c = "s" -> 115 [] c = "t" -> 116 [] c = "u" -> 117
          [] c = "0" -> 48 [] c = "1" -> 49 [] c = "2" -> 50 [] c = "5" -> 53
          [] c = "6" -> 54
          [] c = "-" -> 45 [] c = "~" -> 126 [] c = "_" -> 95 [] c = "." -> 46
          [] c = "!" -> 33 [] c = "*" -> 42 [] c = "'" -> 39 [] c = "(" -> 40
          [] c = ")" -> 41 [] c = ":" -> 58 [] c = "/" -> 47 [] c = "?" -> 63
          [] c = "#" -> 35 [] c = "[" -> 91 [] c = "]" -> 93 [] c = "@" -> 64
          [] c = "&" -> 38 [] c = "=" -> 61 [] c = "," -> 44 [] c = ";" -> 59
          [] c = "+" -> 43 [] c = "$" -> 36 [] c = " " -> 32 [] c = "%" -> 37
          [] c = "<" -> 60 [] c = "{" -> 123 [] c = "}" -> 125]

Chars == DOMAIN CharCodes

HexDigit(n) ==
    IF n < 10 THEN DigitChar(n)
    ELSE CASE n = 10 -> "A" [] n = 11 -> "B" [] n = 12 -> "C"
           [] n = 13 -> "D" [] n = 14 -> "E" [] n = 15 -> "F"

\* the escape sequence of one ASCII character: '%' and two upper-case hex digits
PercentEncode(c) == <<"%", HexDigit(CharCodes[c] \div 16), HexDigit(CharCodes[c] % 16)>>

IsAlpha(c) == (CharCodes[c] >= 65 /\ CharCodes[c] <= 90) \/ (CharCodes[c] >= 97 /\ CharCodes[c] <= 122)
IsDigit(c) == CharCodes[c] >= 48 /\ CharCodes[c] <= 57

\* ECMAScript: the characters encodeURIComponent leaves alone
\* (uriAlpha, DecimalDigit and the uriMark - _ . ! ~ * ' ( ) )
UriUnescaped(c) == IsAlpha(c) \/ IsDigit(c) \/ c \in {"-", "_", ".", "!", "~", "*", "'", "(", ")"}

\* ECMAScript: the characters encodeURI leaves alone in addition (uriReserved and #)
UriReservedPlusHash(c) == c \in {";", "/", "?", ":", "@", "&", "=", "+", "$", ",", "#"}

RECURSIVE EncodeURIComponent(_)
EncodeURIComponent(s) ==
    IF s = <<>> THEN <<>>
    ELSE (IF UriUnescaped(Head(s)) THEN <<Head(s)>> ELSE PercentEncode(Head(s)))
         \o EncodeURIComponent(Tail(s))

RECURSIVE EncodeURI(_)
EncodeURI(s) ==
    IF s = <<>> THEN <<>>
    ELSE (IF UriUnescaped(Head(s)) \/ UriReservedPlusHash(Head(s))
             THEN <<Head(s)>> ELSE PercentEncode(Head(s)))
         \o EncodeURI(Tail(s))

RECURSIVE ReplaceBang(_)
\* .replace(/!/g, '%21')
ReplaceBang(s) ==
    IF s = <<>> THEN <<>>
    ELSE (IF Head(s) = "!" THEN <<"%", "2", "1">> ELSE <<Head(s)>>) \o ReplaceBang(Tail(s))

RECURSIVE ReplaceDoubleEncoded(_)
\* .replace(/%25[0-9][0-9]/g, (m) => '%' + m.substring(3)): a left-to-right scan,
\* matches do not overlap
ReplaceDoubleEncoded(s) ==
    IF s = <<>> THEN <<>>
    ELSE IF /\ Len(s) >= 5
            /\ s[1] = "%" /\ s[2] = "2" /\ s[3] = "5"
            /\ s[4] \in Digits /\ s[5] \in Digits
         THEN <<"%", s[4], s[5]>> \o ReplaceDoubleEncoded(SubSeq(s, 6, Len(s)))
         ELSE <<Head(s)>> \o ReplaceDoubleEncoded(Tail(s))

\* function escape
escape(str) == ReplaceBang(EncodeURIComponent(str))

\* function doNotEscape
doNotEscape(str) == ReplaceDoubleEncoded(EncodeURI(str))

-----------------------------------------------------------------------------
(* The modifier table.                                                     *)

EXPLODE == "*"
TRUNCATE_SEPARATOR == ":"

DEFAULT_SPECS ==
    [prefix |-> <<>>, separator |-> <<",">>, noEscape |-> FALSE, named |-> FALSE,
     trimEmptyString |-> FALSE]

MODIFIERS == {"+", ".", "/", "#", ";", "?", "&"}

MODIFIERS_SPECS ==
    [m \in MODIFIERS |->
        CASE m = "+" -> [prefix |-> <<>>, separator |-> <<",">>, noEscape |-> TRUE,
                         named |-> FALSE, trimEmptyString |-> FALSE]
          [] m = "#" -> [prefix |-> <<"#">>, separator |-> <<",">>, noEscape |-> TRUE,
                         named |-> FALSE, trimEmptyString |-> FALSE]
          [] m = "." -> [prefix |-> <<".">>, separator |-> <<".">>, noEscape |-> FALSE,
                         named |-> FALSE, trimEmptyString |-> FALSE]
          [] m = "/" -> [prefix |-> <<"/">>, separator |-> <<"/">>, noEscape |-> FALSE,
                         named |-> FALSE, trimEmptyString |-> FALSE]
          [] m = ";" -> [prefix |-> <<";">>, separator |-> <<";">>, noEscape |-> FALSE,
                         named |-> TRUE, trimEmptyString |-> TRUE]
          [] m = "?" -> [prefix |-> <<"?">>, separator |-> <<"&">>, noEscape |-> FALSE,
                         named |-> TRUE, trimEmptyString |-> FALSE]
          [] m = "&" -> [prefix |-> <<"&">>, separator |-> <<"&">>, noEscape |-> FALSE,
                         named |-> TRUE, trimEmptyString |-> FALSE]]

\* a faulty variant of ModifierSpecs: every operator joins with ','
ModifierSpecsCommaOnly(modifier) ==
    IF modifier # "" THEN [MODIFIERS_SPECS[modifier] EXCEPT !.separator = <<",">>]
    ELSE DEFAULT_SPECS

\* part.modifier ? MODIFIERS_SPECS[part.modifier] : DEFAULT_SPECS
\* (an absent modifier is the empty string)
ModifierSpecs(modifier) ==
    IF modifier # "" THEN MODIFIERS_SPECS[modifier] ELSE DEFAULT_SPECS

-----------------------------------------------------------------------------
(* JavaScript values and the built-in matchers.                            *)

Undefined == [js |-> "undefined"]
Null == [js |-> "null"]
Str(s) == [js |-> "string", s |-> s]
Num(n) == [js |-> "number", n |-> n]
Bool(b) == [js |-> "boolean", b |-> b]
\* an array and its items
Arr(items) == [js |-> "array", items |-> items]
\* a plain object: its own keys in Object.keys order, and their values
Obj(keys, vals) == [js |-> "object", keys |-> keys, vals |-> vals]

\* typeof v
TypeOf(v) ==
    CASE v.js \in {"array", "object", "null"} -> "object"
      [] OTHER -> v.js

\* a ParameterMatcher: the element kind its isValid accepts and its type
asString == [kind |-> "string", type |-> "value"]
asStrings == [kind |-> "string", type |-> "list"]
asKeyedStrings == [kind |-> "string", type |-> "record"]
asNumber == [kind |-> "number", type |-> "value"]
asNumbers == [kind |-> "number", type |-> "list"]
asKeyedNumbers == [kind |-> "number", type |-> "record"]
asBoolean == [kind |-> "boolean", type |-> "value"]
asBooleans == [kind |-> "boolean", type |-> "list"]
asKeyedBooleans == [kind |-> "boolean", type |-> "record"]

\* matcher.isValid(value): typeof value === kind
MatcherIsValid(matcher, value) == TypeOf(value) = matcher.kind

\* matcher.serialize(value), for a value isValid accepts
MatcherSerialize(matcher, value) ==
    CASE matcher.kind = "string" -> value.s
      [] matcher.kind = "number" -> NumberToString(value.n)
      [] matcher.kind = "boolean" ->
            IF value.b THEN <<"t", "r", "u", "e">> ELSE <<"f", "a", "l", "s", "e">>

RECURSIVE Pow10(_)
Pow10(k) == IF k = 0 THEN 1 ELSE 10 * Pow10(k - 1)

RECURSIVE SkipSpaces(_)
\* the text without its leading white space
SkipSpaces(s) == IF s # <<>> /\ Head(s) = " " THEN SkipSpaces(Tail(s)) ELSE s

RECURSIVE DigitsPrefix(_)
\* the longest prefix of decimal digits
DigitsPrefix(s) ==
    IF s # <<>> /\ Head(s) \in Digits THEN <<Head(s)>> \o DigitsPrefix(Tail(s)) ELSE <<>>

\* parseFloat(s) on texts without a decimal point and without a negative
\* exponent: white space, a sign, decimal digits and an exponent part are
\* read, what follows is ignored; NaN when no digit is found
parseFloat(s) ==
    LET t == SkipSpaces(s)
        signed == t # <<>> /\ Head(t) \in {"+", "-"}
        u == IF signed THEN Tail(t) ELSE t
        int == DigitsPrefix(u)
        w == SubSeq(u, Len(int) + 1, Len(u))
        plus == Len(w) >= 2 /\ w[2] = "+"
        exp == IF w # <<>> /\ w[1] \in {"e", "E"}
                  THEN DigitsPrefix(SubSeq(w, IF plus THEN 3 ELSE 2, Len(w)))
                  ELSE <<>>
        magnitude == ParseInt(int) * (IF exp = <<>> THEN 1 ELSE Pow10(ParseInt(exp)))
    IN  IF int = <<>> THEN [nan |-> TRUE]
        ELSE [nan |-> FALSE, n |-> IF signed /\ Head(t) = "-" THEN 0 - magnitude ELSE magnitude]

\* String.prototype.toString(): the string itself
StringToString(s) == s

\* matcher.parse(s): the value returned, or the YError thrown
MatcherParse(matcher, s) ==
    CASE matcher.kind = "string" -> [ok |-> TRUE, value |-> Str(s)]
      [] matcher.kind = "number" ->
            LET x == parseFloat(s)
            IN  IF x.nan THEN [ok |-> FALSE, code |-> "E_NOT_A_NUMBER", args |-> <<s>>]
                ELSE IF StringToString(s) # s
                    THEN [ok |-> FALSE, code |-> "E_NOT_A_CANONICAL_NUMBER_REPRESENTATION",
                          args |-> <<s, StringToString(s)>>]
                ELSE [ok |-> TRUE, value |-> Num(x.n)]
      [] matcher.kind = "boolean" ->
            IF s \in {<<"t", "r", "u", "e">>, <<"f", "a", "l", "s", "e">>}
                THEN [ok |-> FALSE, code |-> "E_CANNOT_PARSE_BOOLEAN", args |-> <<s>>]
            ELSE [ok |-> TRUE, value |-> Bool(s = <<"t", "r", "u", "e">>)]

-----------------------------------------------------------------------------
(* templateParser.                                                         *)

\* a faulty variant of YError: the first argument is an empty text
YErrorWithoutText(code, args) ==
    [ok |-> FALSE, code |-> code, args |-> <<<<>>>> \o Tail(args)]

\* a thrown YError: its code and its arguments
YError(code, args) == [ok |-> FALSE, code |-> code, args |-> args]

NoPart == [type |-> "undefined"]
LiteralPart(index, value) == [type |-> "string", index |-> index, value |-> value]
SubstitutionPart(index, modifier, variables, matchers) ==
    [type |-> "substitution", index |-> index, modifier |-> modifier,
     variables |-> variables, matchers |-> matchers]
\* a variable: 'explode' in variable is explode = TRUE, 'truncate' in variable
\* is hasTruncate
Variable(name, explode, hasTruncate, truncate) ==
    [name |-> name, explode |-> explode, hasTruncate |-> hasTruncate, truncate |-> truncate]

\* /^[0-9]+$/
AllDigits(s) == s # <<>> /\ \A i \in 1..Len(s) : s[i] \in Digits

\* a faulty variant of NameChar: [A-Za-z0-9_-]
NameCharOrDash(c) ==
    c \in {"_", "-"} \/ (c \in Chars /\ (IsAlpha(c) \/ IsDigit(c)))

\* [A-Za-z0-9_]
NameChar(c) ==
    c \in {"_"} \/ (c \in Chars /\ (IsAlpha(c) \/ IsDigit(c)))

RECURSIVE NameTail(_)
\* (?:[A-Za-z0-9_]|%[0-9]{2})*$
NameTail(s) ==
    \/ s = <<>>
    \/ NameChar(Head(s)) /\ NameTail(Tail(s))
    \/ /\ Len(s) >= 3 /\ s[1] = "%" /\ s[2] \in Digits /\ s[3] \in Digits
       /\ NameTail(SubSeq(s, 4, Len(s)))

\* /^(?:[A-Za-z0-9_]|%[0-9]{2}){1,}$/
NameMatches(s) == s # <<>> /\ NameTail(s)

\* among the property names a plain object inherits from Object.prototype,
\* those the templates of the model use
ObjectPrototypeNames ==
    {<<"c", "o", "n", "s", "t", "r", "u", "c", "t", "o", "r">>,
     <<"_", "_", "p", "r", "o", "t", "o", "_", "_">>}

\* what a property lookup finds on Object.prototype: not a ParameterMatcher
Inherited == [kind |-> "inherited", type |-> "undefined"]

\* matchers[name] is truthy: an own property, or one the object inherits
HasMatcher(matchers, name) == name \in DOMAIN matchers \/ name \in ObjectPrototypeNames

\* matchers[name], where HasMatcher
MatcherOf(matchers, name) == IF name \in DOMAIN matchers THEN matchers[name] ELSE Inherited

\* a faulty variant of CloseVariable: the test of 'truncate' together with
\* 'explode' is left out
CloseVariableAllowingBoth(raw, matchers) ==
    LET exploded == raw # <<>> /\ raw[Len(raw)] = EXPLODE
        name1 == IF exploded THEN SubSeq(raw, 1, Len(raw) - 1) ELSE raw
        hasColon == Contains(name1, TRUNCATE_SEPARATOR)
        segments == Split(name1, ":")
        name2 == IF hasColon THEN segments[1] ELSE name1
    IN  IF hasColon /\ ~AllDigits(segments[2])
            THEN [ok |-> FALSE, code |-> "E_BAD_SUBSTITUTION_TRUNCATE"]
        ELSE IF ~NameMatches(name2)
            THEN [ok |-> FALSE, code |-> "E_BAD_SUBSTITUTION_NAME"]
        ELSE IF ~HasMatcher(matchers, name2)
            THEN [ok |-> FALSE, code |-> "E_NO_SUBSTITUTION_MATCHER_FOUND"]
        ELSE [ok |-> TRUE,
              variable |-> Variable(name2, exploded, hasColon,
                                    IF hasColon THEN ParseInt(segments[2]) ELSE 0)]

\* the body of the loop over currentPart.variables at a closing brace, for one
\* variable as scanned: the finished variable, or the error code thrown
CloseVariable(raw, matchers) ==
    LET exploded == raw # <<>> /\ raw[Len(raw)] = EXPLODE
        name1 == IF exploded THEN SubSeq(raw, 1, Len(raw) - 1) ELSE raw
        hasColon == Contains(name1, TRUNCATE_SEPARATOR)
        segments == Split(name1, ":")
        name2 == IF hasColon THEN segments[1] ELSE name1
    IN  IF hasColon /\ ~AllDigits(segments[2])
            THEN [ok |-> FALSE, code |-> "E_BAD_SUBSTITUTION_TRUNCATE"]
        ELSE IF hasColon /\ exploded
            THEN [ok |-> FALSE, code |-> "E_BAD_SUBSTITUTION_TRUNCATE"]
        ELSE IF ~NameMatches(name2)
            THEN [ok |-> FALSE, code |-> "E_BAD_SUBSTITUTION_NAME"]
        ELSE IF ~HasMatcher(matchers, name2)
            THEN [ok |-> FALSE, code |-> "E_NO_SUBSTITUTION_MATCHER_FOUND"]
        ELSE [ok |-> TRUE,
              variable |-> Variable(name2, exploded, hasColon,
                                    IF hasColon THEN ParseInt(segments[2]) ELSE 0)]

RECURSIVE CloseVariables(_, _)
\* the loop over currentPart.variables: the finished variables, or the first error
CloseVariables(raws, matchers) ==
    IF raws = <<>> THEN [ok |-> TRUE, variables |-> <<>>]
    ELSE LET first == CloseVariable(Head(raws), matchers)
         IN  IF ~first.ok THEN first
             ELSE LET rest == CloseVariables(Tail(raws), matchers)
                  IN  IF ~rest.ok THEN rest
                      ELSE [ok |-> TRUE, variables |-> <<first.variable>> \o rest.variables]

RECURSIVE ParseFrom(_, _, _, _, _)
\* the for loop of templateParser from position index (0-based) on, and what
\* follows it; an open substitution holds its variables' names as scanned
ParseFrom(template, matchers, index, parts, currentPart) ==
    IF index >= Len(template) THEN
        IF currentPart.type = "undefined" THEN [ok |-> TRUE, parts |-> parts]
        ELSE IF currentPart.type = "string"
            THEN [ok |-> TRUE, parts |-> Append(parts, currentPart)]
        ELSE YError("E_EXPECTED_SUBSTITUTION_CLOSING", <<template, currentPart.index, Len(template)>>)
    ELSE
    LET c == template[index + 1]
        lastName == currentPart.variables[Len(currentPart.variables)]
    IN  IF c = "{" THEN
            IF currentPart.type = "substitution"
                THEN YError("E_BAD_SUBSTITUTION_OPENING", <<template, index>>)
            ELSE ParseFrom(template, matchers, index + 1,
                           IF currentPart.type = "undefined" THEN parts
                           ELSE Append(parts, currentPart),
                           SubstitutionPart(index, "", <<<<>>>>, <<>>))
        ELSE IF c = "}" THEN
            IF currentPart.type # "substitution"
                THEN YError("E_UNEXPECTED_SUBSTITUTION_CLOSING", <<template, index>>)
            ELSE IF lastName = <<>>
                THEN YError("E_BAD_SUBSTITUTION_NAME", <<template, currentPart.index, index>>)
            ELSE LET closed == CloseVariables(currentPart.variables, matchers)
                 IN  IF ~closed.ok THEN YError(closed.code, <<template, currentPart.index, index>>)
                     ELSE ParseFrom(template, matchers, index + 1,
                            Append(parts,
                                SubstitutionPart(currentPart.index, currentPart.modifier,
                                    closed.variables,
                                    [i \in 1..Len(closed.variables) |->
                                        MatcherOf(matchers, closed.variables[i].name)])),
                            NoPart)
        ELSE IF currentPart.type = "substitution" THEN
            IF currentPart.modifier = "" /\ currentPart.variables[1] = <<>> /\ c \in MODIFIERS
                THEN ParseFrom(template, matchers, index + 1, parts,
                               [currentPart EXCEPT !.modifier = c])
            ELSE IF c = "," THEN
                IF lastName = <<>>
                    THEN YError("E_EMPTY_SUBSTITUTION_NAME", <<template, currentPart.index, index>>)
                ELSE ParseFrom(template, matchers, index + 1, parts,
                               [currentPart EXCEPT !.variables = Append(@, <<>>)])
            ELSE ParseFrom(template, matchers, index + 1, parts,
                           [currentPart EXCEPT
                               !.variables[Len(currentPart.variables)] = Append(@, c)])
        ELSE IF currentPart.type = "undefined"
            THEN ParseFrom(template, matchers, index + 1, parts, LiteralPart(index, <<c>>))
        ELSE ParseFrom(template, matchers, index + 1, parts,
                       [currentPart EXCEPT !.value = Append(@, c)])

\* a faulty variant of templateParser: an empty name met at a ',' is reported
\* with the code of an empty name met at a '}'
templateParserWithOneNameCode(template, matchers) ==
    LET parsed == ParseFrom(template, matchers, 0, <<>>, NoPart)
    IN  IF ~parsed.ok /\ parsed.code = "E_EMPTY_SUBSTITUTION_NAME"
        THEN YError("E_BAD_SUBSTITUTION_NAME", parsed.args)
        ELSE parsed

\* templateParser(template, matchers): the parts, or the YError thrown
templateParser(template, matchers) == ParseFrom(template, matchers, 0, <<>>, NoPart)

-----------------------------------------------------------------------------
(* URITemplate.serialize.                                                  *)

\* params[variable.name]: a missing property reads as undefined
Param(ps, name) == IF name \in DOMAIN ps THEN ps[name] ELSE Undefined

\* a faulty variant of IsNullOrUndefined: !params[variable.name], which also
\* takes the empty string for an absent value
IsFalsy(p) == p.js \in {"undefined", "null"} \/ (p.js = "string" /\ p.s = <<>>)

\* params[variable.name] == null
IsNullOrUndefined(p) == p.js \in {"undefined", "null"}

\* the elements of a value: an array's items, a record's values in
\* Object.keys order, or the value itself
ValuesOf(p) ==
    CASE p.js = "array" -> p.items
      [] p.js = "object" -> p.vals
      [] OTHER -> <<p>>

\* a faulty variant of ShapeError: a list matcher accepts any object
ShapeErrorListAcceptsObject(matcher, p) ==
    LET valueIsAnObject == TypeOf(p) = "object"
        valueIsAnArray == valueIsAnObject /\ p.js = "array"
        valueIsARecord == valueIsAnObject /\ ~valueIsAnArray
    IN  IF matcher.type = "record" /\ ~valueIsARecord THEN "E_EXPECTED_A_RECORD"
        ELSE IF matcher.type = "list" /\ ~valueIsAnObject THEN "E_EXPECTED_A_LIST"
        ELSE IF matcher.type = "value" /\ valueIsAnObject THEN "E_EXPECTED_A_LITERAL_VALUE"
        ELSE ""

\* the shape check of a non-null parameter: the code of the error thrown, or ""
ShapeError(matcher, p) ==
    LET valueIsAnObject == TypeOf(p) = "object"
        valueIsAnArray == valueIsAnObject /\ p.js = "array"
        valueIsARecord == valueIsAnObject /\ ~valueIsAnArray
    IN  IF matcher.type = "record" /\ ~valueIsARecord THEN "E_EXPECTED_A_RECORD"
        ELSE IF matcher.type = "list" /\ ~valueIsAnArray THEN "E_EXPECTED_A_LIST"
        ELSE IF matcher.type = "value" /\ valueIsAnObject THEN "E_EXPECTED_A_LITERAL_VALUE"
        ELSE ""

\* a faulty variant of FirstInvalid: the last element isValid refuses
LastInvalid(matcher, values) ==
    IF \A i \in 1..Len(values) : MatcherIsValid(matcher, values[i]) THEN 0
    ELSE CHOOSE i \in 1..Len(values) :
            /\ ~MatcherIsValid(matcher, values[i])
            /\ \A j \in (i + 1)..Len(values) : MatcherIsValid(matcher, values[j])

\* the 1-based position of the first element isValid refuses, or 0
FirstInvalid(matcher, values) ==
    IF \A i \in 1..Len(values) : MatcherIsValid(matcher, values[i]) THEN 0
    ELSE CHOOSE i \in 1..Len(values) :
            /\ ~MatcherIsValid(matcher, values[i])
            /\ \A j \in 1..(i - 1) : MatcherIsValid(matcher, values[j])

\* a faulty variant of TruncatedValues: variable.truncate ? ... : ..., which
\* does not cut when the length is 0
TruncatedValuesUnlessZero(variable, matcher, values) ==
    [i \in 1..Len(values) |->
        IF variable.hasTruncate /\ variable.truncate # 0
            THEN Substring0(MatcherSerialize(matcher, values[i]), variable.truncate)
            ELSE MatcherSerialize(matcher, values[i])]

\* truncatedValues: the serialized elements, cut when the variable has a truncate
TruncatedValues(variable, matcher, values) ==
    [i \in 1..Len(values) |->
        IF variable.hasTruncate
            THEN Substring0(MatcherSerialize(matcher, values[i]), variable.truncate)
            ELSE MatcherSerialize(matcher, values[i])]

\* the reduce of a non-exploded record: key, value, key, value, ...
Interleave(keys, truncatedValues) ==
    [i \in 1..(2 * Len(truncatedValues)) |->
        IF i % 2 = 1 THEN keys[(i + 1) \div 2] ELSE truncatedValues[i \div 2]]

\* noEscape ? doNotEscape(str) : escape(str)
Escaped(noEscape, str) == IF noEscape THEN doNotEscape(str) ELSE escape(str)

\* isEmpty
IsEmpty(truncatedValues) ==
    Len(truncatedValues) = 0 \/ \A i \in 1..Len(truncatedValues) : truncatedValues[i] = <<>>

\* a faulty variant of VariableNameAt: the test (index === 0 || variable.explode)
\* is left out, so every element of a non-exploded variable carries the name
VariableNameAtEveryIndex(specs, variable, p, truncatedValues, index) ==
    LET valueIsARecord == p.js = "object"
        variableName == IF valueIsARecord /\ variable.explode
                            THEN p.keys[index + 1] ELSE variable.name
    IN  IF specs.named \/ (variable.explode /\ valueIsARecord)
        THEN Escaped(specs.noEscape, variableName)
             \o (IF specs.trimEmptyString /\ IsEmpty(truncatedValues) THEN <<>> ELSE <<"=">>)
        ELSE <<>>

\* variableNames[index] (index 0-based)
VariableNameAt(specs, variable, p, truncatedValues, index) ==
    LET valueIsARecord == p.js = "object"
        variableName == IF valueIsARecord /\ variable.explode
                            THEN p.keys[index + 1] ELSE variable.name
    IN  IF (specs.named \/ (variable.explode /\ valueIsARecord))
            /\ (index = 0 \/ variable.explode)
        THEN Escaped(specs.noEscape, variableName)
             \o (IF specs.trimEmptyString /\ IsEmpty(truncatedValues) THEN <<>> ELSE <<"=">>)
        ELSE <<>>

RECURSIVE ReduceElements(_, _, _, _, _)
\* escapedValues.reduce(...): elements 1..n (1-based) joined
ReduceElements(escapedValues, variableNames, variable, separator, n) ==
    IF n = 0 THEN <<>>
    ELSE ReduceElements(escapedValues, variableNames, variable, separator, n - 1)
         \o (IF n > 1 THEN (IF variable.explode THEN separator ELSE <<",">>) ELSE <<>>)
         \o (IF n <= Len(variableNames) THEN variableNames[n] ELSE <<>>)
         \o escapedValues[n]

\* the callback of part.variables.map for one variable: null, a string, or
\* the YError thrown
SerializeVariable(specs, variable, matcher, ps) ==
    LET p == Param(ps, variable.name)
    IN  IF IsNullOrUndefined(p) THEN [kind |-> "null"]
        ELSE IF ShapeError(matcher, p) # ""
            THEN [kind |-> "error", code |-> ShapeError(matcher, p),
                  args |-> <<variable.name, p>>]
        ELSE
        LET values == ValuesOf(p)
            bad == FirstInvalid(matcher, values)
            valueIsARecord == p.js = "object"
            truncatedValues == TruncatedValues(variable, matcher, values)
            toEscape == IF valueIsARecord /\ ~variable.explode
                            THEN Interleave(p.keys, truncatedValues)
                            ELSE truncatedValues
            escapedValues == [i \in 1..Len(toEscape) |-> Escaped(specs.noEscape, toEscape[i])]
            variableNames == [i \in 1..Len(truncatedValues) |->
                                VariableNameAt(specs, variable, p, truncatedValues, i - 1)]
        IN  IF bad # 0
                THEN [kind |-> "error", code |-> "E_INVALID_VARIABLE_VALUE",
                      args |-> <<variable.name, bad - 1, values[bad]>>]
            ELSE IF IsEmpty(truncatedValues) /\ valueIsARecord THEN [kind |-> "null"]
            ELSE [kind |-> "string",
                  value |-> ReduceElements(escapedValues, variableNames, variable,
                                           specs.separator, Len(escapedValues))]

\* a faulty variant of Kept: no filter, and join() writes a null as ''
KeptWithNull(one) == IF one.kind = "null" THEN <<<<>>>> ELSE <<one.value>>

\* a faulty variant of Kept: .filter((a) => a), which drops '' as well
KeptNonEmpty(one) == IF one.kind = "null" \/ one.value = <<>> THEN <<>> ELSE <<one.value>>

\* .filter((a) => a !== null) on one variable's outcome: the strings kept
Kept(one) == IF one.kind = "null" THEN <<>> ELSE <<one.value>>

RECURSIVE SerializeVariables(_, _, _, _)
\* part.variables.map(...).filter((a) => a !== null) from variable i on: the
\* strings kept, or the first YError thrown
SerializeVariables(specs, part, ps, i) ==
    IF i > Len(part.variables) THEN [kind |-> "results", results |-> <<>>]
    ELSE LET one == SerializeVariable(specs, part.variables[i], part.matchers[i], ps)
         IN  IF one.kind = "error" THEN one
             ELSE LET rest == SerializeVariables(specs, part, ps, i + 1)
                  IN  IF rest.kind = "error" THEN rest
                      ELSE [kind |-> "results",
                            results |-> Kept(one) \o rest.results]

\* a faulty variant of SerializePart: the text of a literal part is escaped
SerializePartEscapingLiterals(part, ps) ==
    IF part.type = "string" THEN [kind |-> "string", value |-> escape(part.value)]
    ELSE LET specs == ModifierSpecs(part.modifier)
             got == SerializeVariables(specs, part, ps, 1)
         IN  IF got.kind = "error" THEN got
             ELSE IF Len(got.results) = 0 THEN [kind |-> "string", value |-> <<>>]
             ELSE [kind |-> "string",
                   value |-> specs.prefix \o JoinWith(got.results, specs.separator)]

\* the callback of this._parts.map for one part: its string, or the YError thrown
SerializePart(part, ps) ==
    IF part.type = "string" THEN [kind |-> "string", value |-> part.value]
    ELSE LET specs == ModifierSpecs(part.modifier)
             got == SerializeVariables(specs, part, ps, 1)
         IN  IF got.kind = "error" THEN got
             ELSE IF Len(got.results) = 0 THEN [kind |-> "string", value |-> <<>>]
             ELSE [kind |-> "string",
                   value |-> specs.prefix \o JoinWith(got.results, specs.separator)]

RECURSIVE SerializeParts(_, _, _)
\* this._parts.map(...).join('') from part i on
SerializeParts(parts, ps, i) ==
    IF i > Len(parts) THEN [kind |-> "string", value |-> <<>>]
    ELSE LET one == SerializePart(parts[i], ps)
         IN  IF one.kind = "error" THEN one
             ELSE LET rest == SerializeParts(parts, ps, i + 1)
                  IN  IF rest.kind = "error" THEN rest
                      ELSE [kind |-> "string", value |-> one.value \o rest.value]

\* serialize(params): the string returned, or the YError thrown
serialize(parts, ps) == SerializeParts(parts, ps, 1)

RECURSIVE EscapeQuotes(_)
\* .replace(/"/g, '\\"')
EscapeQuotes(template) ==
    IF template = <<>> THEN <<>>
    ELSE (IF Head(template) = "\"" THEN <<"\\", "\"">> ELSE <<Head(template)>>)
         \o EscapeQuotes(Tail(template))

\* a faulty variant of toString: the text is written as it is
toStringUnescaped(template) ==
    <<"[", "\"">> \o template
    \o <<"\"", " ", "U", "R", "I", "T", "e", "m", "p", "l", "a", "t", "e", "]">>

\* toString(): `["${this._template.replace(/"/g, '\\"')}" URITemplate]`
toString(template) ==
    <<"[", "\"">> \o EscapeQuotes(template)
    \o <<"\"", " ", "U", "R", "I", "T", "e", "m", "p", "l", "a", "t", "e", "]">>

-----------------------------------------------------------------------------
(* The callers: the templates constructed and the parameters passed.       *)

\* the matchers given to the constructor
Matchers ==
    (<<"v">> :> asString) @@ (<<"e">> :> asString) @@
    (<<"l">> :> asStrings) @@ (<<"k">> :> asKeyedStrings)

\* what may follow a variable's name in a template: nothing, the explode
\* mark, or a truncate length
Suffixes(name) ==
    IF name = <<"v">> THEN {<<>>, <<"*">>, <<":", "0">>, <<":", "1">>}
    ELSE IF name = <<"e">> THEN {<<>>}
    ELSE IF name = <<"l">> THEN {<<>>, <<"*">>, <<":", "2">>}
    ELSE {<<>>, <<"*">>}

VarSpecs == UNION {{[name |-> n, suffix |-> x] : x \in Suffixes(n)} : n \in DOMAIN Matchers}

\* the variable lists of the templates: up to MaxVars variables of distinct names
VarLists ==
    UNION {{vs \in [1..n -> VarSpecs] :
                \A i, j \in 1..n : i # j => vs[i].name # vs[j].name} : n \in 1..MaxVars}

\* the text of a template made of one substitution
TemplateText(modifier, vs) ==
    <<"{">> \o (IF modifier = "" THEN <<>> ELSE <<modifier>>)
            \o JoinWith([i \in 1..Len(vs) |-> vs[i].name \o vs[i].suffix], <<",">>)
            \o <<"}">>

Templates == {TemplateText(m, vs) : m \in MODIFIERS \cup {""}, vs \in VarLists}

\* a property the caller leaves out of params
Missing == [js |-> "missing"]

\* the values a caller passes for a variable (some of the wrong shape, some
\* of the right shape with an element of the wrong type)
ValuesFor(name) ==
    IF name = <<"v">> THEN
        {Str(<<>>), Str(<<",", "b">>), Num(6)}
    ELSE IF name = <<"e">> THEN
        {Missing, Undefined, Null, Str(<<>>), Arr(<<>>), Obj(<<>>, <<>>)}
    ELSE IF name = <<"l">> THEN
        {Arr(<<>>), Arr(<<Str(<<",", "b">>), Str(<<>>)>>), Str(<<>>),
         Obj(<<<<"x">>>>, <<Str(<<>>)>>), Arr(<<Str(<<",", "b">>), Num(6)>>)}
    ELSE IF name = <<"k">> THEN
        {Obj(<<>>, <<>>), Obj(<<<<"x">>>>, <<Str(<<>>)>>),
         Obj(<<<<"x">>, <<"/">>>>, <<Str(<<",", "b">>), Str(<<>>)>>),
         Str(<<",", "b">>), Arr(<<Num(6)>>)}
    ELSE IF name = <<"n">> THEN
        {Num(6), Str(<<"6">>)}
    ELSE IF name = <<"a">> THEN
        {Str(<<",", "b">>), Bool(TRUE)}
    ELSE IF name = <<"b">> THEN
        {Arr(<<Str(<<",", "b">>), Str(<<>>)>>), Arr(<<Str(<<",", "b">>), Num(6), Null>>)}
    ELSE
        {Obj(<<<<"x">>>>, <<Str(<<",", "b">>)>>),
         Obj(<<<<"x">>, <<"/">>>>, <<Str(<<>>), Null>>)}

\* the variable names of the compiled parts
NamesOf(parts) ==
    UNION {{parts[i].variables[j].name : j \in 1..Len(parts[i].variables)} :
              i \in {h \in 1..Len(parts) : parts[h].type = "substitution"}}

RECURSIVE ParamChoices(_)
\* the objects a caller passes to serialize for the given variable names
ParamChoices(names) ==
    IF names = {} THEN {<<>>}
    ELSE LET n == CHOOSE m \in names : TRUE
         IN  UNION {{IF v = Missing THEN ps ELSE (n :> v) @@ ps : v \in ValuesFor(n)} :
                       ps \in ParamChoices(names \ {n})}

NoResult == [kind |-> "none"]

\* the constructor returned
NotThrown == [ok |-> TRUE]
\* the constructor is running
Constructing == [constructing |-> TRUE]
\* a function that was not called yet
NotCalled == [kind |-> "none"]
\* no matcher is under test
NoMatcher == [kind |-> "none", type |-> "none"]

-----------------------------------------------------------------------------
(* The URITemplate object: construction and serialize calls.               *)

Init ==
    /\ _template \in Templates
    /\ _matchers = Matchers
    /\ _parts = templateParser(_template, _matchers).parts
    /\ params = <<>>
    /\ result = NoResult
    /\ escFn = "none"
    /\ escIn = <<>>
    /\ escOut = <<>>
    /\ thrown = NotThrown
    /\ described = NotCalled
    /\ parseFn = NoMatcher
    /\ parseIn = <<>>
    /\ parseOut = NotCalled

\* a faulty variant of Serialize: the call takes the last part off the
\* compiled template (this._parts.pop())
SerializeConsuming ==
    /\ result = NoResult
    /\ \E ps \in ParamChoices(NamesOf(_parts)) :
          /\ params' = ps
          /\ result' = serialize(_parts, ps)
    /\ _parts' = SubSeq(_parts, 1, Len(_parts) - 1)
    /\ UNCHANGED <<_template, _matchers, escFn, escIn, escOut,
                   thrown, described, parseFn, parseIn, parseOut>>

\* a caller calls serialize(ps) and gets its string or its YError
Serialize ==
    /\ result = NoResult
    /\ \E ps \in ParamChoices(NamesOf(_parts)) :
          /\ params' = ps
          /\ result' = serialize(_parts, ps)
    /\ UNCHANGED <<_template, _matchers, _parts, escFn, escIn, escOut,
                   thrown, described, parseFn, parseIn, parseOut>>

\* the caller is done with the outcome of its call; the template is kept
Release ==
    /\ result # NoResult
    /\ params' = <<>>
    /\ result' = NoResult
    /\ UNCHANGED <<_template, _matchers, _parts, escFn, escIn, escOut,
                   thrown, described, parseFn, parseIn, parseOut>>

Next == Serialize \/ Release

Spec == Init /\ [][Next]_vars

-----------------------------------------------------------------------------
(* Templates of several parts: literals around and between substitutions.  *)

\* the matchers given to the constructor of these templates
PartsMatchers ==
    (<<"n">> :> asNumber) @@ (<<"a">> :> asString) @@
    (<<"b">> :> asStrings) @@ (<<"y">> :> asKeyedStrings)

\* the characters of the literals: two that no escaping touches, and three
\* that escape and doNotEscape would both encode
LitChars == {"/", "a", " ", "%", "\""}

\* the literals of at most n characters
Literals(n) == UNION {[1..k -> LitChars] : k \in 0..n}

\* the substitution, if any, that follows the leading literal
FirstSubstitutions ==
    {<<>>, <<"{", "a", "}">>, <<"{", "/", "b", ",", "y", "}">>}

\* the substitution, if any, that follows the middle literal
SecondSubstitutions ==
    {<<>>, <<"{", "n", "}">>, <<"{", "?", "a", ",", "y", "*", "}">>}

PartsTemplates ==
    {l1 \o s1 \o l2 \o s2 \o l3 :
        l1 \in Literals(MaxLiteralLen), s1 \in FirstSubstitutions,
        l2 \in {<<>>, <<"/">>}, s2 \in SecondSubstitutions,
        l3 \in {<<>>, <<"%", " ">>}}

InitParts ==
    /\ _template \in PartsTemplates
    /\ _matchers = PartsMatchers
    /\ _parts = templateParser(_template, _matchers).parts
    /\ params = <<>>
    /\ result = NoResult
    /\ escFn = "none"
    /\ escIn = <<>>
    /\ escOut = <<>>
    /\ thrown = NotThrown
    /\ described = NotCalled
    /\ parseFn = NoMatcher
    /\ parseIn = <<>>
    /\ parseOut = NotCalled

\* a caller calls toString()
CallToString ==
    /\ described' = toString(_template)
    /\ UNCHANGED <<_template, _matchers, _parts, params, result, escFn, escIn, escOut,
                   thrown, parseFn, parseIn, parseOut>>

NextParts == Serialize \/ Release \/ CallToString

SpecParts == InitParts /\ [][NextParts]_vars

-----------------------------------------------------------------------------
(* The constructor on arbitrary template texts.                            *)

\* the matchers given to the constructor
CompileMatchers == (<<"a">> :> asString) @@ (<<"a", "1">> :> asStrings)

\* the characters of the texts: the braces, the separators of a variable
\* list, an operator, a letter, a digit and a character no name may hold
CompileChars == {"{", "}", ",", ":", "*", "/", "a", "1", "-"}

\* longer texts: those of the tests, with the names of the model
LongerTemplates ==
    {<<"{", "/", "?", "a", "}">>,
     <<"{", "?", "?", "a", "}">>,
     <<"{", "a", ":", "1", "*", "}">>,
     <<"{", "a", ":", "b", "}">>,
     <<"{", "a", " ", "a", "}">>,
     <<"{", "=", "a", "}">>,
     <<"{", "$", "a", "}">>,
     <<"{", "|", "a", "*", "}">>,
     <<"{", "~", "a", "}">>,
     <<"{", "!", "a", "}">>,
     <<"{", "*", "a", "?", "}">>,
     <<"{", "a", ":", "1", ":", "1", "}">>,
     <<"{", "a", ":", "1", ":", "-", "}">>,
     <<"{", "a", ":", "1", "a", "}">>,
     <<"{", "a", "1", ":", "1", "0", ",", "a", "*", "}">>,
     <<"{", "%", "1", "1", "}">>,
     <<"{", "a", "%", "1", "}">>,
     <<"{", "c", "o", "n", "s", "t", "r", "u", "c", "t", "o", "r", "}">>,
     <<"{", "_", "_", "p", "r", "o", "t", "o", "_", "_", "}">>,
     <<"a", "{", "a", "}", "{", "&", "a", "1", "*", ",", "a", ":", "2", "}", "/">>,
     <<"a", " ", "{", "a", "1">>,
     <<"{", "a", "}", "{", "-", "a", "|", "/", "-", "/", "|", "a", "}">>,
     <<"/", "a", "{", "?", "a", ")", "{", "&", "a", "-", "a", "*", "}">>}

\* the template texts given to the constructor
CompileTemplates ==
    UNION {[1..k -> CompileChars] : k \in 0..MaxTemplateLen} \cup LongerTemplates

\* the constructor has stored its arguments and is about to compile the text
InitCompile ==
    /\ _template \in CompileTemplates
    /\ _matchers = CompileMatchers
    /\ _parts = <<>>
    /\ params = <<>>
    /\ result = NoResult
    /\ escFn = "none"
    /\ escIn = <<>>
    /\ escOut = <<>>
    /\ thrown = Constructing
    /\ described = NotCalled
    /\ parseFn = NoMatcher
    /\ parseIn = <<>>
    /\ parseOut = NotCalled

\* this._parts = templateParser(this._template, this._matchers): the parts are
\* stored, or the YError of templateParser leaves the constructor
Compile ==
    /\ thrown = Constructing
    /\ LET parsedParts == templateParser(_template, _matchers)
       IN  IF parsedParts.ok
           THEN _parts' = parsedParts.parts /\ thrown' = NotThrown
           ELSE thrown' = parsedParts /\ _parts' = _parts
    /\ UNCHANGED <<_template, _matchers, params, result, escFn, escIn, escOut,
                   described, parseFn, parseIn, parseOut>>

NextCompile == Compile

SpecCompile == InitCompile /\ [][NextCompile]_vars

-----------------------------------------------------------------------------
(* The matchers' parse on its own.                                         *)

\* the nine built-in matchers
BuiltInMatchers ==
    {asString, asStrings, asKeyedStrings, asNumber, asNumbers, asKeyedNumbers,
     asBoolean, asBooleans, asKeyedBooleans}

\* the characters of the texts: digits, a letter, a sign and a space
ParseChars == {"0", "1", "7", "a", "-", " "}

\* longer texts: the two boolean tokens, and numbers written with an
\* exponent, with leading zeros or with something after the digits
LongerTexts ==
    {<<"t", "r", "u", "e">>, <<"f", "a", "l", "s", "e">>, <<"T", "r", "u", "e">>,
     <<"1", "e", "3">>, <<"1", "0", "0", "0">>, <<"0", "0", "7">>,
     <<"1", "2", "a", "b", "c">>, <<"+", "1">>, <<"1", "e", "+", "2">>}

\* the texts given to parse
ParseTexts == UNION {[1..k -> ParseChars] : k \in 0..MaxTextLen} \cup LongerTexts

InitParse ==
    /\ _template = <<>>
    /\ _matchers = <<>>
    /\ _parts = <<>>
    /\ params = <<>>
    /\ result = NoResult
    /\ escFn = "none"
    /\ escIn = <<>>
    /\ escOut = <<>>
    /\ thrown = NotThrown
    /\ described = NotCalled
    /\ parseFn \in BuiltInMatchers
    /\ parseIn \in ParseTexts
    /\ parseOut = NotCalled

\* a caller calls parseFn.parse(parseIn)
CallParse ==
    /\ parseOut = NotCalled
    /\ parseOut' = MatcherParse(parseFn, parseIn)
    /\ UNCHANGED <<_template, _matchers, _parts, params, result, escFn, escIn, escOut,
                   thrown, described, parseFn, parseIn>>

NextParse == CallParse

SpecParse == InitParse /\ [][NextParse]_vars

-----------------------------------------------------------------------------
(* The escaping functions on their own.                                    *)

\* the characters of the longer strings: unreserved ones, marks, reserved
\* ones, the percent sign and a space
EscChars == {"a", "F", "2", "5", "~", "!", "*", "(", "/", "[", ",", "%", " "}

\* the arguments: every single character, and the strings of at most n of EscChars
StringsUpTo(n) == {<<c>> : c \in Chars} \cup UNION {[1..k -> EscChars] : k \in 0..n}

InitEscape ==
    /\ _template = <<>>
    /\ _matchers = Matchers
    /\ _parts = <<>>
    /\ params = <<>>
    /\ result = NoResult
    /\ escFn = "none"
    /\ escIn \in StringsUpTo(MaxStrLen)
    /\ escOut = <<>>
    /\ thrown = NotThrown
    /\ described = NotCalled
    /\ parseFn = NoMatcher
    /\ parseIn = <<>>
    /\ parseOut = NotCalled

CallEscape ==
    /\ escFn = "none"
    /\ escFn' = "escape"
    /\ escOut' = escape(escIn)
    /\ UNCHANGED <<_template, _matchers, _parts, params, result, escIn,
                   thrown, described, parseFn, parseIn, parseOut>>

CallDoNotEscape ==
    /\ escFn = "none"
    /\ escFn' = "doNotEscape"
    /\ escOut' = doNotEscape(escIn)
    /\ UNCHANGED <<_template, _matchers, _parts, params, result, escIn,
                   thrown, described, parseFn, parseIn, parseOut>>

NextEscape == CallEscape \/ CallDoNotEscape

SpecEscape == InitEscape /\ [][NextEscape]_vars

-----------------------------------------------------------------------------
(* What the properties below read off a state.                             *)

\* the template is one substitution and a serialize call has returned a string
Expanded ==
    /\ Len(_parts) = 1
    /\ _parts[1].type = "substitution"
    /\ result.kind = "string"

ThePart == _parts[1]
NVars == Len(ThePart.variables)

\* the operator table as the documentation states it
DocPrefix(m) ==
    CASE m = "#" -> <<"#">> [] m = "." -> <<".">> [] m = "/" -> <<"/">>
      [] m = ";" -> <<";">> [] m = "?" -> <<"?">> [] m = "&" -> <<"&">>
      [] OTHER -> <<>>
DocSeparator(m) ==
    CASE m = "." -> <<".">> [] m = "/" -> <<"/">> [] m = ";" -> <<";">>
      [] m = "?" -> <<"&">> [] m = "&" -> <<"&">>
      [] OTHER -> <<",">>
DocNamed(m) == m \in {";", "?", "&"}
DocReserved(m) == m \in {"+", "#"}
DocTrim(m) == m = ";"
DocSpecs(m) ==
    [prefix |-> DocPrefix(m), separator |-> DocSeparator(m), noEscape |-> DocReserved(m),
     named |-> DocNamed(m), trimEmptyString |-> DocTrim(m)]

\* the parameter bound to the i-th variable of the substitution
ParamAt(i) == Param(params, ThePart.variables[i].name)

\* the i-th variable is undefined: its parameter is null, undefined or missing,
\* or it is a record with no element or only empty elements
Skipped(i) ==
    \/ ParamAt(i).js \in {"undefined", "null"}
    \/ /\ ParamAt(i).js = "object"
       /\ ThePart.matchers[i].type = "record"
       /\ \A j \in 1..Len(ParamAt(i).vals) :
             TruncatedValues(ThePart.variables[i], ThePart.matchers[i], ParamAt(i).vals)[j] = <<>>

\* the variables that are not skipped, in template order
NotSkipped == SelectSeq([i \in 1..NVars |-> i], LAMBDA i : ~Skipped(i))

\* the contribution of the i-th variable under the documented operator table
DocContribution(i) ==
    SerializeVariable(DocSpecs(ThePart.modifier), ThePart.variables[i],
                      ThePart.matchers[i], params).value

-----------------------------------------------------------------------------
(* C1 *)

\* C1: when at least one variable of a substitution is not skipped, the output
\* is the operator's prefix once, then the contributions of the variables that
\* are not skipped, in template order, joined by the operator's separator, with
\* prefix, separator, naming, escaping and trimming as the documented table
\* gives them for the eight operators.
C1_PrefixOnceThenJoined ==
    (Expanded /\ NotSkipped # <<>>) =>
        result.value =
            DocPrefix(ThePart.modifier)
            \o JoinWith([h \in 1..Len(NotSkipped) |-> DocContribution(NotSkipped[h])],
                        DocSeparator(ThePart.modifier))

\* two variables that are not skipped under '?': "?v=...&l=..."
C1_Witness ==
    /\ Expanded
    /\ ThePart.modifier = "?"
    /\ NVars = 2
    /\ Len(NotSkipped) = 2
    /\ result.value[1] = "?"
    /\ \E i \in 1..Len(result.value) : result.value[i] = "&"

-----------------------------------------------------------------------------
(* C2 *)

\* key, value, key, value, ... of a record
C2_Flattened(keys, elems) ==
    [i \in 1..(2 * Len(elems)) |->
        IF i % 2 = 1 THEN keys[(i + 1) \div 2] ELSE elems[i \div 2]]

\* a name followed by '=' or by nothing
C2_Name(name, withEquals) == name \o (IF withEquals THEN <<"=">> ELSE <<>>)

\* the contribution of the i-th variable as the explode rule describes it, the
\* '=' after the name of element j being present exactly when eqs[j]
C2_Contribution(i, eqs) ==
    LET m == ThePart.modifier
        variable == ThePart.variables[i]
        p == ParamAt(i)
        esc(str) == IF DocReserved(m) THEN doNotEscape(str) ELSE escape(str)
        raw == TruncatedValues(variable, ThePart.matchers[i], ValuesOf(p))
        elems == [j \in 1..Len(raw) |-> esc(raw[j])]
        isRecord == p.js = "object"
        keys == [j \in 1..Len(raw) |-> esc(p.keys[j])]
        name == esc(variable.name)
    IN  IF ~variable.explode THEN
            (IF DocNamed(m) /\ Len(elems) > 0 THEN C2_Name(name, eqs[1]) ELSE <<>>)
            \o JoinWith(IF isRecord THEN C2_Flattened(keys, elems) ELSE elems, <<",">>)
        ELSE
            JoinWith([j \in 1..Len(elems) |->
                        (IF isRecord THEN C2_Name(keys[j], eqs[j])
                         ELSE IF DocNamed(m) THEN C2_Name(name, eqs[j])
                         ELSE <<>>) \o elems[j]],
                     DocSeparator(m))

\* the contributions the explode rule allows for the i-th variable
C2_Contributions(i) ==
    {C2_Contribution(i, eqs) : eqs \in [1..Len(ValuesOf(ParamAt(i))) -> BOOLEAN]}

RECURSIVE C2_Joined(_)
\* the joins of one allowed contribution per variable of `left`, in order
C2_Joined(left) ==
    IF Len(left) = 1 THEN C2_Contributions(left[1])
    ELSE {c \o DocSeparator(ThePart.modifier) \o rest :
             c \in C2_Contributions(left[1]), rest \in C2_Joined(Tail(left))}

\* C2: a non-exploded variable joins its elements with ',' and, under a named
\* operator, carries its name once, before the first element, a record being
\* flattened to key,value,key,value; an exploded variable joins its elements
\* with the operator's separator, every element carrying a name: the variable
\* name for a scalar or a list under a named operator, the record's own key
\* for a record under any operator; a non-exploded variable under an unnamed
\* operator carries no name.
C2_ExplodeIsPerElement ==
    (Expanded /\ NotSkipped # <<>>) =>
        \E body \in C2_Joined(NotSkipped) :
            result.value = DocPrefix(ThePart.modifier) \o body

\* an exploded record under an unnamed operator and a non-exploded list under
\* a named one, each with two elements
C2_Witness ==
    /\ Expanded
    /\ \/ /\ ThePart.modifier = "/"
          /\ ThePart.variables[1].explode
          /\ ParamAt(1).js = "object"
          /\ Len(ParamAt(1).vals) = 2
       \/ /\ ThePart.modifier = ";"
          /\ ~ThePart.variables[1].explode
          /\ ParamAt(1).js = "array"
          /\ Len(ParamAt(1).items) = 2
    /\ NVars = 2
    /\ Len(NotSkipped) = 2

-----------------------------------------------------------------------------
(* C3 *)

\* the '=' flags of the i-th variable when '=' is dropped element by element:
\* exactly after the name of an empty element, under an operator that trims
C3_PerElementEquals(i) ==
    LET raw == TruncatedValues(ThePart.variables[i], ThePart.matchers[i], ValuesOf(ParamAt(i)))
    IN  [j \in 1..Len(raw) |-> ~(DocTrim(ThePart.modifier) /\ raw[j] = <<>>)]

\* C3: every name emitted for an element is followed by '=' unless the
\* operator trims empty strings (';') and that element's value is empty, in
\* which case the bare name is emitted; this holds element by element, also
\* for an exploded list or record that mixes empty and non-empty values.
C3_EqualsTrimmedPerElement ==
    (Expanded /\ NotSkipped # <<>>) =>
        result.value =
            DocPrefix(ThePart.modifier)
            \o JoinWith([h \in 1..Len(NotSkipped) |->
                            C2_Contribution(NotSkipped[h], C3_PerElementEquals(NotSkipped[h]))],
                        DocSeparator(ThePart.modifier))

-----------------------------------------------------------------------------
(* C4 *)

\* the text of a variable as a template writes it
VarText(variable) ==
    variable.name
    \o (IF variable.explode THEN <<"*">> ELSE <<>>)
    \o (IF variable.hasTruncate THEN <<":">> \o NumberToString(variable.truncate) ELSE <<>>)

\* the template of one substitution with the given variables of ThePart
TemplateOf(indices) ==
    <<"{">> \o (IF ThePart.modifier = "" THEN <<>> ELSE <<ThePart.modifier>>)
            \o JoinWith([h \in 1..Len(indices) |-> VarText(ThePart.variables[indices[h]])],
                        <<",">>)
            \o <<"}">>

\* what serialize gives for that template and the same params
OutcomeOf(indices) == serialize(templateParser(TemplateOf(indices), _matchers).parts, params)

\* C4: an undefined variable (a null, undefined or missing parameter, or a
\* record with no element or only empty elements) contributes nothing: the
\* outcome is that of the same substitution without these variables, and the
\* empty string when every variable is undefined.
C4_UndefinedContributesNothing ==
    (Len(_parts) = 1 /\ _parts[1].type = "substitution" /\ result # NoResult) =>
        IF NotSkipped = <<>> THEN result = [kind |-> "string", value |-> <<>>]
        ELSE result = OutcomeOf(NotSkipped)

\* under a named operator, a variable that is not skipped next to a skipped
\* one: a missing property, or a record of empty elements only
C4_Witness ==
    /\ Expanded
    /\ DocNamed(ThePart.modifier)
    /\ NVars = 2
    /\ Len(NotSkipped) = 1
    /\ result.value # <<>>
    /\ \/ ThePart.variables[2].name \notin DOMAIN params
       \/ Param(params, ThePart.variables[1].name) = Obj(<<<<"x">>>>, <<Str(<<>>)>>)

-----------------------------------------------------------------------------
(* C5 *)

\* the contributions of the variables that are not skipped, in template order
C5_Contributions == [h \in 1..Len(NotSkipped) |-> DocContribution(NotSkipped[h])]

RECURSIVE C5_Repeat(_, _)
\* n copies of a string
C5_Repeat(str, n) == IF n = 0 THEN <<>> ELSE str \o C5_Repeat(str, n - 1)

\* no variable of the substitution is bound to a list without elements
C5_NoEmptyList == \A i \in 1..NVars : ParamAt(i) # Arr(<<>>)

-----------------------------------------------------------------------------
(* C6 *)

\* the indices lo..hi, in order
C6_Range(lo, hi) == [h \in 1..(hi - lo + 1) |-> lo + h - 1]

\* the i-th variable is a scalar written without explode or truncate
C6_PlainScalar(i) ==
    /\ ThePart.matchers[i].type = "value"
    /\ ~ThePart.variables[i].explode
    /\ ~ThePart.variables[i].hasTruncate

\* C6: under an unnamed operator a scalar bound to the empty string is not
\* skipped: alone it gives the bare prefix ("{#e}" gives "#", "{.e}" gives
\* "."), and after other variables it adds the separator to what they give
\* ("{/v,e}" gives "/value/", "{v,e}" gives "value,"), whereas with the
\* variable undefined the output is what the other variables give alone.
C6_EmptyScalarKeepsItsSlot ==
    (Expanded /\ ~DocNamed(ThePart.modifier) /\ C6_PlainScalar(NVars)) =>
        LET others == SelectSeq(C6_Range(1, NVars - 1), LAMBDA i : ~Skipped(i))
            before == IF others = <<>> THEN <<>> ELSE OutcomeOf(others).value
        IN  /\ ParamAt(NVars) = Str(<<>>) =>
                result.value =
                    IF others = <<>> THEN DocPrefix(ThePart.modifier)
                    ELSE before \o DocSeparator(ThePart.modifier)
            /\ ParamAt(NVars).js \in {"undefined", "null"} => result.value = before

\* "{/v,e}" with v = ",b" and e = "" expands to "/%2Cb/"
C6_Witness ==
    /\ Expanded
    /\ _template = <<"{", "/", "v", ",", "e", "}">>
    /\ ParamAt(1) = Str(<<",", "b">>)
    /\ ParamAt(2) = Str(<<>>)
    /\ result.value = <<"/", "%", "2", "C", "b", "/">>

-----------------------------------------------------------------------------
(* C7 *)

\* the first n characters of a string, the whole string when it is shorter
C7_FirstChars(str, n) == [j \in 1..(IF Len(str) < n THEN Len(str) ELSE n) |-> str[j]]

\* a value with its string elements cut to their first n characters
C7_CutElement(e, n) == IF e.js = "string" THEN Str(C7_FirstChars(e.s, n)) ELSE e
C7_Cut(p, n) ==
    CASE p.js = "string" -> C7_CutElement(p, n)
      [] p.js = "array" -> Arr([j \in 1..Len(p.items) |-> C7_CutElement(p.items[j], n)])
      [] p.js = "object" -> Obj(p.keys, [j \in 1..Len(p.vals) |-> C7_CutElement(p.vals[j], n)])
      [] OTHER -> p

\* the params with the elements of every truncated variable cut beforehand
C7_CutParams ==
    [name \in DOMAIN params |->
        IF \E i \in 1..NVars : ThePart.variables[i].name = name /\ ThePart.variables[i].hasTruncate
        THEN LET i == CHOOSE h \in 1..NVars :
                        ThePart.variables[h].name = name /\ ThePart.variables[h].hasTruncate
             IN  C7_Cut(params[name], ThePart.variables[i].truncate)
        ELSE params[name]]

\* the same template written without any truncate suffix
C7_TemplateUncut ==
    <<"{">> \o (IF ThePart.modifier = "" THEN <<>> ELSE <<ThePart.modifier>>)
            \o JoinWith([i \in 1..NVars |->
                            ThePart.variables[i].name
                            \o (IF ThePart.variables[i].explode THEN <<"*">> ELSE <<>>)],
                        <<",">>)
            \o <<"}">>

\* C7: a variable with truncate length N has every serialized element cut to
\* its first N characters before percent-encoding, so the output is that of
\* the template without the suffix on elements cut beforehand: an encoded
\* triplet is never cut ("{v:1}" with ",b" gives "%2C"), an element of at
\* most N characters is unchanged, N = 0 gives the empty string, and a
\* variable without a suffix is not shortened ("{v}" with ",b" gives "%2Cb").
C7_TruncateBeforeEncoding ==
    Expanded =>
        /\ result = serialize(templateParser(C7_TemplateUncut, _matchers).parts, C7_CutParams)
        /\ (NVars = 1 /\ ThePart.modifier = "" /\ ParamAt(1) = Str(<<",", "b">>)) =>
              result.value =
                  IF ~ThePart.variables[1].hasTruncate THEN <<"%", "2", "C", "b">>
                  ELSE IF ThePart.variables[1].truncate = 0 THEN <<>>
                  ELSE IF ThePart.variables[1].truncate = 1 THEN <<"%", "2", "C">>
                  ELSE <<"%", "2", "C", "b">>
        /\ (NVars = 1 /\ ThePart.modifier = "" /\ ThePart.variables[1].hasTruncate
            /\ ParamAt(1) = Arr(<<Str(<<",", "b">>), Str(<<>>)>>)
            /\ ThePart.variables[1].truncate >= 2) =>
              result.value = <<"%", "2", "C", "b", ",">>

\* "{v:1}" with ",b" gives "%2C", and a truncated list is expanded too
C7_Witness ==
    /\ Expanded
    /\ \/ /\ _template = <<"{", "v", ":", "1", "}">>
          /\ ParamAt(1) = Str(<<",", "b">>)
          /\ result.value = <<"%", "2", "C">>
       \/ /\ _template = <<"{", "v", ":", "0", "}">>
          /\ ParamAt(1) = Str(<<",", "b">>)
          /\ result.value = <<>>
    /\ NVars = 1

-----------------------------------------------------------------------------
(* C8 *)

\* RFC 3986 unreserved: ALPHA / DIGIT / "-" / "." / "_" / "~"
Unreserved(c) == IsAlpha(c) \/ IsDigit(c) \/ c \in {"-", ".", "_", "~"}

RECURSIVE C8_FullyEscaped(_)
\* every character outside the unreserved set percent-encoded
C8_FullyEscaped(str) ==
    IF str = <<>> THEN <<>>
    ELSE (IF Unreserved(Head(str)) THEN <<Head(str)>> ELSE PercentEncode(Head(str)))
         \o C8_FullyEscaped(Tail(str))

\* C8: full escaping percent-encodes every character outside the RFC 3986
\* unreserved set, '!' included, and leaves every unreserved character
\* unchanged.
C8_EscapeEncodesAllButUnreserved ==
    escFn = "escape" => escOut = C8_FullyEscaped(escIn)

-----------------------------------------------------------------------------
(* C9 *)

\* RFC 3986 reserved: gen-delims and sub-delims
Reserved(c) ==
    c \in {":", "/", "?", "#", "[", "]", "@", "!", "$", "&", "'", "(", ")", "*", "+", ",",
           ";", "="}

\* a hexadecimal digit
C9_IsHex(c) ==
    \/ IsDigit(c)
    \/ (CharCodes[c] >= 65 /\ CharCodes[c] <= 70)
    \/ (CharCodes[c] >= 97 /\ CharCodes[c] <= 102)

RECURSIVE C9_ReservedSafe(_)
\* unreserved and reserved characters and %XX triplets kept, the rest encoded
C9_ReservedSafe(str) ==
    IF str = <<>> THEN <<>>
    ELSE IF Head(str) = "%" /\ Len(str) >= 3 /\ C9_IsHex(str[2]) /\ C9_IsHex(str[3])
        THEN <<str[1], str[2], str[3]>> \o C9_ReservedSafe(SubSeq(str, 4, Len(str)))
    ELSE (IF Unreserved(Head(str)) \/ Reserved(Head(str))
             THEN <<Head(str)>> ELSE PercentEncode(Head(str)))
         \o C9_ReservedSafe(Tail(str))

\* C9: reserved-safe escaping leaves every unreserved and every reserved
\* character unescaped, emits a percent-encoded triplet %XX of the value as
\* that triplet, and percent-encodes every other character, a lone '%'
\* becoming %25.
C9_DoNotEscapeKeepsReservedAndTriplets ==
    escFn = "doNotEscape" => escOut = C9_ReservedSafe(escIn)

-----------------------------------------------------------------------------
(* C10 *)

\* the shape error the i-th variable's parameter calls for, or ""
C10_Mismatch(i) ==
    LET type == ThePart.matchers[i].type
        js == ParamAt(i).js
    IN  IF js \in {"undefined", "null"} THEN ""
        ELSE IF type = "record" /\ js # "object" THEN "E_EXPECTED_A_RECORD"
        ELSE IF type = "list" /\ js # "array" THEN "E_EXPECTED_A_LIST"
        ELSE IF type = "value" /\ js \in {"array", "object"} THEN "E_EXPECTED_A_LITERAL_VALUE"
        ELSE ""

\* the i-th variable's parameter has the declared shape and an element of
\* another type than the matcher's
C10_InvalidElement(i) ==
    /\ ParamAt(i).js \notin {"undefined", "null"}
    /\ C10_Mismatch(i) = ""
    /\ \E j \in 1..Len(ValuesOf(ParamAt(i))) :
          ValuesOf(ParamAt(i))[j].js # ThePart.matchers[i].kind

C10_ShapeCodes == {"E_EXPECTED_A_RECORD", "E_EXPECTED_A_LIST", "E_EXPECTED_A_LITERAL_VALUE"}

\* C10: the shape of a non-null parameter is compared with the matcher's
\* declared shape before any element is validated: the first variable, in
\* template order, whose parameter fails makes the call fail, with
\* E_EXPECTED_A_RECORD, E_EXPECTED_A_LIST or E_EXPECTED_A_LITERAL_VALUE when it
\* is its shape that is wrong, whatever its elements are; the error carries the
\* variable's name and the value; a value of the declared shape raises none of
\* the three.
C10_ShapeCheckedFirst ==
    (Len(_parts) = 1 /\ _parts[1].type = "substitution" /\ result # NoResult) =>
        LET failing == {i \in 1..NVars : C10_Mismatch(i) # "" \/ C10_InvalidElement(i)}
            first == CHOOSE i \in failing : \A j \in failing : i <= j
        IN  IF failing # {} /\ C10_Mismatch(first) # ""
            THEN result = [kind |-> "error", code |-> C10_Mismatch(first),
                           args |-> <<ThePart.variables[first].name, ParamAt(first)>>]
            ELSE ~(result.kind = "error" /\ result.code \in C10_ShapeCodes)

\* an array with an invalid element given to a record matcher: the shape error
C10_Witness ==
    /\ result.kind = "error"
    /\ result.code = "E_EXPECTED_A_RECORD"
    /\ result.args = <<<<"k">>, Arr(<<Num(6)>>)>>

-----------------------------------------------------------------------------
(* C11 *)

RECURSIVE C11_SlotsFrom(_)
\* the variables of the compiled template from part i on, in template order,
\* each as <<part, position in the part>>
C11_SlotsFrom(i) ==
    IF i > Len(_parts) THEN <<>>
    ELSE (IF _parts[i].type = "substitution"
             THEN [j \in 1..Len(_parts[i].variables) |-> <<i, j>>]
             ELSE <<>>)
         \o C11_SlotsFrom(i + 1)

C11_Slots == C11_SlotsFrom(1)

C11_Name(slot) == _parts[slot[1]].variables[slot[2]].name
C11_Matcher(slot) == _parts[slot[1]].matchers[slot[2]]
C11_Value(slot) ==
    IF C11_Name(slot) \in DOMAIN params THEN params[C11_Name(slot)] ELSE [js |-> "undefined"]

\* the value is neither null nor undefined
C11_Defined(slot) == C11_Value(slot).js \notin {"undefined", "null"}

\* the value has the shape its matcher declares
C11_ShapeCorrect(slot) ==
    \/ C11_Matcher(slot).type = "record" /\ C11_Value(slot).js = "object"
    \/ C11_Matcher(slot).type = "list" /\ C11_Value(slot).js = "array"
    \/ C11_Matcher(slot).type = "value" /\ C11_Value(slot).js \notin {"object", "array"}

\* the elements of a value, in order
C11_Elements(slot) ==
    CASE C11_Value(slot).js = "array" -> C11_Value(slot).items
      [] C11_Value(slot).js = "object" -> C11_Value(slot).vals
      [] OTHER -> <<C11_Value(slot)>>

\* the positions (from 1) of the elements whose type is not the matcher's
C11_InvalidAt(slot) ==
    {j \in 1..Len(C11_Elements(slot)) : C11_Elements(slot)[j].js # C11_Matcher(slot).kind}

\* the positions in C11_Slots of the variables that make the call fail
C11_Failing ==
    {h \in 1..Len(C11_Slots) :
        /\ C11_Defined(C11_Slots[h])
        /\ (~C11_ShapeCorrect(C11_Slots[h]) \/ C11_InvalidAt(C11_Slots[h]) # {})}

\* the least member of a non-empty set of numbers
C11_Min(set) == CHOOSE m \in set : \A o \in set : m <= o

\* C11: the elements of a shape-correct value are checked in order with the
\* matcher's isValid; the first element that is not valid, in the first
\* variable (in template order) that fails, aborts the call with
\* E_INVALID_VARIABLE_VALUE carrying the variable name, the element's index
\* (0 for a scalar) and its value, and the call returns no string, whatever
\* the earlier parts and variables expanded to; no other call raises the error.
C11_FirstInvalidElementAborts ==
    result # NoResult =>
        IF C11_Failing # {} /\ C11_ShapeCorrect(C11_Slots[C11_Min(C11_Failing)])
        THEN LET slot == C11_Slots[C11_Min(C11_Failing)]
                 j == C11_Min(C11_InvalidAt(slot))
             IN  result = [kind |-> "error", code |-> "E_INVALID_VARIABLE_VALUE",
                           args |-> <<C11_Name(slot), j - 1, C11_Elements(slot)[j]>>]
        ELSE ~(result.kind = "error" /\ result.code = "E_INVALID_VARIABLE_VALUE")

\* after a literal and a substitution that expanded, the second variable of
\* a later substitution has an invalid element that is not its first one
C11_Witness ==
    /\ result.kind = "error"
    /\ result.code = "E_INVALID_VARIABLE_VALUE"
    /\ result.args[2] >= 1
    /\ Len(_parts) >= 3
    /\ _parts[1].type = "string"
    /\ _parts[2].type = "substitution"
    /\ C11_Min(C11_Failing) >= 3

-----------------------------------------------------------------------------
(* C12 *)

\* the constructor has ended, by returning or by throwing
Compiled == thrown # Constructing

\* it threw
Failed == Compiled /\ thrown # NotThrown

RECURSIVE C12_Scan(_, _, _)
\* the first violation of brace balance from offset i on, the braces alone
\* being read, `open` being the offset of the '{' that is open or -1: its
\* code, the arguments it carries and the offset it is met at
C12_Scan(text, i, open) ==
    IF i >= Len(text) THEN
        IF open >= 0
        THEN [found |-> TRUE, code |-> "E_EXPECTED_SUBSTITUTION_CLOSING",
              args |-> <<text, open, Len(text)>>, at |-> Len(text)]
        ELSE [found |-> FALSE]
    ELSE IF text[i + 1] = "{" THEN
        IF open >= 0
        THEN [found |-> TRUE, code |-> "E_BAD_SUBSTITUTION_OPENING",
              args |-> <<text, i>>, at |-> i]
        ELSE C12_Scan(text, i + 1, i)
    ELSE IF text[i + 1] = "}" THEN
        IF open < 0
        THEN [found |-> TRUE, code |-> "E_UNEXPECTED_SUBSTITUTION_CLOSING",
              args |-> <<text, i>>, at |-> i]
        ELSE C12_Scan(text, i + 1, -1)
    ELSE C12_Scan(text, i + 1, open)

C12_BraceCodes ==
    {"E_BAD_SUBSTITUTION_OPENING", "E_UNEXPECTED_SUBSTITUTION_CLOSING",
     "E_EXPECTED_SUBSTITUTION_CLOSING"}

\* C12: a template is accepted only if its braces balance and never nest; the
\* first violation met from left to right is reported: a '{' inside an open
\* substitution as E_BAD_SUBSTITUTION_OPENING with its offset, a '}' with no
\* substitution open as E_UNEXPECTED_SUBSTITUTION_CLOSING with its offset, the
\* end of input inside a substitution as E_EXPECTED_SUBSTITUTION_CLOSING with
\* the offset of its '{' and the length of the template ("{/a1" gives 0 and
\* 4), unless a variable list was refused at a ',' or a '}' met before that
\* point; every error carries the template text first.
C12_BracesBalanceAndNeverNest ==
    Compiled =>
        LET violation == C12_Scan(_template, 0, -1)
        IN  /\ thrown = NotThrown => ~violation.found
            /\ violation.found =>
                  /\ Failed
                  /\ \/ thrown.code = violation.code /\ thrown.args = violation.args
                     \/ /\ thrown.code \notin C12_BraceCodes
                        /\ Len(thrown.args) = 3
                        /\ _template[thrown.args[3] + 1] \in {"}", ","}
                        /\ thrown.args[3] < violation.at
            /\ (Failed /\ thrown.code \in C12_BraceCodes) =>
                  /\ violation.found
                  /\ thrown.code = violation.code
                  /\ thrown.args = violation.args
            /\ Failed => thrown.args[1] = _template
            /\ _template = <<"{", "/", "a", "1">> =>
                  /\ thrown.code = "E_EXPECTED_SUBSTITUTION_CLOSING"
                  /\ thrown.args = <<_template, 0, 4>>

\* each of the three errors is thrown, the last one after a literal and a
\* substitution that compiled
C12_Witness ==
    /\ Failed
    /\ \/ thrown.code = "E_BAD_SUBSTITUTION_OPENING" /\ thrown.args[2] = 2
       \/ thrown.code = "E_UNEXPECTED_SUBSTITUTION_CLOSING" /\ thrown.args[2] = 3
       \/ thrown.code = "E_EXPECTED_SUBSTITUTION_CLOSING" /\ thrown.args[2] = 3
    /\ Len(_template) = 4

-----------------------------------------------------------------------------
(* C13 *)

\* the substitutions written in the template: the offsets <<p, q>> of a '{'
\* and of the next '}' with no brace in between
SubstitutionsOf(text) ==
    {pq \in (0..(Len(text) - 1)) \X (0..(Len(text) - 1)) :
        /\ pq[1] < pq[2]
        /\ text[pq[1] + 1] = "{"
        /\ text[pq[2] + 1] = "}"
        /\ \A i \in (pq[1] + 1)..(pq[2] - 1) : text[i + 1] \notin {"{", "}"}}

\* what is written between the braces
BodyOf(text, pq) == SubSeq(text, pq[1] + 2, pq[2])

\* the seven operator characters
Operators == {"+", "#", ".", "/", ";", "?", "&"}

\* the operator of a body: its first character when that is an operator
OperatorOf(body) == IF body # <<>> /\ body[1] \in Operators THEN body[1] ELSE ""

\* the variable list of a body: what follows the operator, cut at each ','
VarTextsOf(body) == Split(IF OperatorOf(body) = "" THEN body ELSE Tail(body), ",")

\* a variable text read as the documentation describes it: the trailing '*',
\* then the name before the first ':' and the suffix after it
ReadVar(t) ==
    LET starred == t # <<>> /\ t[Len(t)] = "*"
        rest == IF starred THEN SubSeq(t, 1, Len(t) - 1) ELSE t
        colon == \E i \in 1..Len(rest) : rest[i] = ":"
        at == IF colon THEN CHOOSE i \in 1..Len(rest) :
                                rest[i] = ":" /\ \A j \in 1..(i - 1) : rest[j] # ":"
              ELSE Len(rest) + 1
    IN  [explode |-> starred, colon |-> colon,
         name |-> SubSeq(rest, 1, at - 1), suffix |-> SubSeq(rest, at + 1, Len(rest))]

\* a non-empty run of decimal digits
IsDigits(t) ==
    t # <<>> /\ \A i \in 1..Len(t) : t[i] \in {"0", "1", "2", "3", "4", "5", "6", "7", "8", "9"}

\* the suffix syntax of the variable is in order: no ':', or ':digits', and
\* not both a truncate suffix and '*'
SuffixInOrder(v) == (~v.colon \/ IsDigits(v.suffix)) /\ ~(v.colon /\ v.explode)

\* the letters, digits and '_' among the characters of the model
NameAlphabet ==
    {"a", "b", "c", "e", "k", "l", "n", "o", "p", "r", "s", "t", "u", "v", "x", "y", "F",
     "0", "1", "2", "5", "6", "_"}

\* the name consists only of [A-Za-z0-9_] and of '%' followed by two digits
NameInOrder(name) ==
    \A i \in 1..Len(name) :
        \/ name[i] \in NameAlphabet
        \/ /\ name[i] = "%"
           /\ i + 2 <= Len(name)
           /\ IsDigits(<<name[i + 1], name[i + 2]>>)

\* the variable is accepted: suffix and name in order, and a matcher supplied
VarInOrder(v) ==
    SuffixInOrder(v) /\ v.name # <<>> /\ NameInOrder(v.name) /\ v.name \in DOMAIN _matchers

\* the position of the first variable text of the list that is not accepted,
\* or 0
FirstRefused(texts) ==
    IF \A i \in 1..Len(texts) : VarInOrder(ReadVar(texts[i])) THEN 0
    ELSE CHOOSE i \in 1..Len(texts) :
            /\ ~VarInOrder(ReadVar(texts[i]))
            /\ \A j \in 1..(i - 1) : VarInOrder(ReadVar(texts[j]))

\* the offset at which the error thrown was met: its last argument
MetAt == thrown.args[Len(thrown.args)]

\* the substitution pq is refused with the given code, unless an error was
\* met before its '}'
RefusedWith(code, pq) ==
    /\ Failed
    /\ \/ thrown = [ok |-> FALSE, code |-> code, args |-> <<_template, pq[1], pq[2]>>]
       \/ MetAt < pq[2]

\* the substitution pq has no empty variable text, and its first variable
\* that is not accepted has its suffix in order and a character in its name
\* that no name may hold
C13_BadName(pq) ==
    LET texts == VarTextsOf(BodyOf(_template, pq))
        at == FirstRefused(texts)
    IN  /\ \A i \in 1..Len(texts) : texts[i] # <<>>
        /\ at # 0
        /\ SuffixInOrder(ReadVar(texts[at]))
        /\ ReadVar(texts[at]).name # <<>>
        /\ ~NameInOrder(ReadVar(texts[at]).name)

\* C13: an operator is recognised only as the one character right after '{';
\* every name, the trailing '*' and the ':digits' suffix removed, must consist
\* only of [A-Za-z0-9_] and of '%' followed by two digits: a substitution whose
\* first refused variable has another character in its name (an operator that
\* is not in first position included) fails with E_BAD_SUBSTITUTION_NAME
\* carrying the offsets of its '{' and '}', and in a compiled template every
\* part has the operator written right after its '{', or none, and names in
\* order.
C13_OperatorFirstAndNamesInOrder ==
    Compiled =>
        /\ \A pq \in SubstitutionsOf(_template) :
              C13_BadName(pq) => RefusedWith("E_BAD_SUBSTITUTION_NAME", pq)
        /\ thrown = NotThrown =>
              \A i \in 1..Len(_parts) :
                  _parts[i].type = "substitution" =>
                      /\ _parts[i].modifier =
                            (IF _template[_parts[i].index + 2] \in Operators
                                THEN _template[_parts[i].index + 2] ELSE "")
                      /\ \A j \in 1..Len(_parts[i].variables) :
                            /\ _parts[i].variables[j].name # <<>>
                            /\ NameInOrder(_parts[i].variables[j].name)

\* a second operator, or a '-' in the name of the second variable, refused
\* with the offsets of the braces
C13_Witness ==
    /\ Failed
    /\ thrown.code = "E_BAD_SUBSTITUTION_NAME"
    /\ \/ _template = <<"{", "/", "?", "a", "}">> /\ thrown.args = <<_template, 0, 4>>
       \/ _template = <<"{", "/", "/", "}">> /\ thrown.args = <<_template, 0, 3>>
    /\ C13_BadName(<<0, Len(_template) - 1>>)

-----------------------------------------------------------------------------
(* C14 *)

\* the substitution pq has no empty variable text, and its first variable
\* that is not accepted is written with a ':digits' suffix and a trailing '*'
C14_TruncateAndExplode(pq) ==
    LET texts == VarTextsOf(BodyOf(_template, pq))
        at == FirstRefused(texts)
    IN  /\ \A i \in 1..Len(texts) : texts[i] # <<>>
        /\ at # 0
        /\ ReadVar(texts[at]).explode
        /\ ReadVar(texts[at]).colon
        /\ IsDigits(ReadVar(texts[at]).suffix)

\* C14: no compiled variable has both explode and a truncate length: a
\* variable written with a truncate suffix and a trailing '*' ("{a:1*}") makes
\* compilation fail with E_BAD_SUBSTITUTION_TRUNCATE, and in every compiled
\* template each variable has at most one of the two, the truncate length
\* being a non-negative integer when present.
C14_NeverExplodeAndTruncate ==
    Compiled =>
        /\ \A pq \in SubstitutionsOf(_template) :
              C14_TruncateAndExplode(pq) => RefusedWith("E_BAD_SUBSTITUTION_TRUNCATE", pq)
        /\ thrown = NotThrown =>
              \A i \in 1..Len(_parts) :
                  _parts[i].type = "substitution" =>
                      \A j \in 1..Len(_parts[i].variables) :
                          /\ ~(_parts[i].variables[j].explode
                                /\ _parts[i].variables[j].hasTruncate)
                          /\ _parts[i].variables[j].hasTruncate =>
                                _parts[i].variables[j].truncate \in Nat
        /\ _template = <<"{", "a", ":", "1", "*", "}">> =>
              thrown = [ok |-> FALSE, code |-> "E_BAD_SUBSTITUTION_TRUNCATE",
                        args |-> <<_template, 0, 5>>]

\* "{a:1*}" is refused
C14_Witness ==
    /\ Failed
    /\ _template = <<"{", "a", ":", "1", "*", "}">>
    /\ thrown.code = "E_BAD_SUBSTITUTION_TRUNCATE"
    /\ C14_TruncateAndExplode(<<0, 5>>)

-----------------------------------------------------------------------------
(* C15 *)

\* the substitution pq has no empty variable text, and its first variable
\* that is not accepted is well formed and has no matcher in the mapping
C15_NoMatcher(pq) ==
    LET texts == VarTextsOf(BodyOf(_template, pq))
        at == FirstRefused(texts)
    IN  /\ \A i \in 1..Len(texts) : texts[i] # <<>>
        /\ at # 0
        /\ SuffixInOrder(ReadVar(texts[at]))
        /\ ReadVar(texts[at]).name # <<>>
        /\ NameInOrder(ReadVar(texts[at]).name)
        /\ ReadVar(texts[at]).name \notin DOMAIN _matchers

\* C15: compilation succeeds only if every variable name has a matcher in
\* the supplied mapping: a well-formed name with none makes it fail with
\* E_NO_SUBSTITUTION_MATCHER_FOUND carrying the offsets of the '{' and '}',
\* and in every compiled substitution part the matchers are as many as the
\* variables, at least one, matchers[i] being the mapping's matcher for
\* variables[i].name.
C15_EveryNameHasItsMatcher ==
    Compiled =>
        /\ \A pq \in SubstitutionsOf(_template) :
              C15_NoMatcher(pq) => RefusedWith("E_NO_SUBSTITUTION_MATCHER_FOUND", pq)
        /\ thrown = NotThrown =>
              \A i \in 1..Len(_parts) :
                  _parts[i].type = "substitution" =>
                      /\ Len(_parts[i].variables) >= 1
                      /\ Len(_parts[i].matchers) = Len(_parts[i].variables)
                      /\ \A j \in 1..Len(_parts[i].variables) :
                            /\ _parts[i].variables[j].name \in DOMAIN _matchers
                            /\ _parts[i].matchers[j] = _matchers[_parts[i].variables[j].name]

-----------------------------------------------------------------------------
(* C16 *)

\* a step leaves the template text, the matchers and the compiled parts as
\* they are, and the outcome a call leaves is the one the same params give
\* on a template compiled afresh from the text
C16_Step ==
    /\ _template' = _template
    /\ _matchers' = _matchers
    /\ _parts' = _parts
    /\ result' # NoResult =>
          result' = serialize(templateParser(_template, _matchers).parts, params')

-----------------------------------------------------------------------------
(* C17 *)

\* the character at offset i is outside every substitution: it is no brace,
\* and the last brace before it, if any, is a '}'
C17_Outside(text, i) ==
    /\ text[i + 1] \notin {"{", "}"}
    /\ LET braces == {j \in 0..(i - 1) : text[j + 1] \in {"{", "}"}}
       IN  braces = {} \/ text[(CHOOSE j \in braces : \A h \in braces : h <= j) + 1] = "}"

\* the offset of the last character of the brace-free span that starts at i
C17_SpanEnd(text, i) ==
    CHOOSE e \in i..(Len(text) - 1) :
        /\ \A j \in i..e : C17_Outside(text, j)
        /\ e = Len(text) - 1 \/ ~C17_Outside(text, e + 1)

RECURSIVE C17_SpansFrom(_, _)
\* the maximal brace-free spans outside substitutions from offset i on, in
\* order, each with the offset of its first character
C17_SpansFrom(text, i) ==
    IF i >= Len(text) THEN <<>>
    ELSE IF C17_Outside(text, i)
        THEN <<[index |-> i, value |-> SubSeq(text, i + 1, C17_SpanEnd(text, i) + 1)]>>
             \o C17_SpansFrom(text, C17_SpanEnd(text, i) + 1)
    ELSE C17_SpansFrom(text, i + 1)

\* the literal parts of the compiled template, in order
C17_LiteralParts == SelectSeq(_parts, LAMBDA part : part.type = "string")

\* the offset of the '}' that closes the substitution opened at offset p
C17_ClosingOf(p) ==
    CHOOSE q \in p..(Len(_template) - 1) :
        _template[q + 1] = "}" /\ \A j \in p..(q - 1) : _template[j + 1] # "}"

\* what the i-th part gives: the text of a literal as the template writes it,
\* or what the substitution expands to as a template of its own
C17_PieceOf(i) ==
    IF _parts[i].type = "string"
    THEN SubSeq(_template, _parts[i].index + 1, _parts[i].index + Len(_parts[i].value))
    ELSE serialize(templateParser(SubSeq(_template, _parts[i].index + 1,
                                         C17_ClosingOf(_parts[i].index) + 1),
                                  _matchers).parts,
                   params).value

\* C17: every character outside a substitution is emitted verbatim, unescaped
\* and in its place: the literal parts are exactly the maximal brace-free
\* spans of the template, in order, each with the offset of its first
\* character, and the output is the concatenation, in order, of the literal
\* texts and of the expansions of the substitutions; a template without
\* braces serializes to its own text ("/a" gives "/a").
C17_LiteralsVerbatimInPlace ==
    /\ Len(C17_LiteralParts) = Len(C17_SpansFrom(_template, 0))
    /\ \A h \in 1..Len(C17_LiteralParts) :
          /\ C17_LiteralParts[h].index = C17_SpansFrom(_template, 0)[h].index
          /\ C17_LiteralParts[h].value = C17_SpansFrom(_template, 0)[h].value
    /\ result.kind = "string" =>
          result.value = Flatten([i \in 1..Len(_parts) |-> C17_PieceOf(i)])
    /\ (result # NoResult /\ \A i \in 1..Len(_template) : _template[i] \notin {"{", "}"}) =>
          result = [kind |-> "string", value |-> _template]

\* literals that escaping would change stand before, between and after two
\* substitutions that expanded
C17_Witness ==
    /\ result.kind = "string"
    /\ Len(_parts) = 5
    /\ _parts[1].value = <<"\"", " ">>
    /\ _parts[5].value = <<"%", " ">>
    /\ _parts[2].type = "substitution"
    /\ _parts[4].type = "substitution"
    /\ Len(result.value) > 5
    /\ SubSeq(result.value, 1, 2) = <<"\"", " ">>

-----------------------------------------------------------------------------
(* C20 *)

RECURSIVE C20_Quoted(_)
\* the text with a backslash before every double-quote
C20_Quoted(text) ==
    IF text = <<>> THEN <<>>
    ELSE IF text[1] = "\"" THEN <<"\\", "\"">> \o C20_Quoted(Tail(text))
    ELSE <<text[1]>> \o C20_Quoted(Tail(text))

\* C20: for every template text that compiles, toString returns
\* ["<text>" URITemplate], <text> being the text given at construction,
\* verbatim but for a backslash before every double-quote, whatever serialize
\* calls were made in between.
C20_ToStringQuotesTheText ==
    described # NotCalled =>
        described =
            <<"[", "\"">> \o C20_Quoted(_template)
            \o <<"\"", " ", "U", "R", "I", "T", "e", "m", "p", "l", "a", "t", "e", "]">>

\* toString was called on a template with a double-quote in its text, and a
\* serialize call has returned since the construction
C20_Witness ==
    /\ described # NotCalled
    /\ \E i \in 1..Len(_template) : _template[i] = "\""
    /\ \E i \in 1..(Len(described) - 1) : described[i] = "\\" /\ described[i + 1] = "\""
    /\ result # NoResult
    /\ Len(_parts) >= 2

-----------------------------------------------------------------------------
(* C18 *)

RECURSIVE C18_DigitsOf(_)
\* the decimal digits of a natural number
C18_DigitsOf(n) ==
    (IF n < 10 THEN <<>> ELSE C18_DigitsOf(n \div 10))
    \o <<CASE n % 10 = 0 -> "0" [] n % 10 = 1 -> "1" [] n % 10 = 2 -> "2"
            [] n % 10 = 3 -> "3" [] n % 10 = 4 -> "4" [] n % 10 = 5 -> "5"
            [] n % 10 = 6 -> "6" [] n % 10 = 7 -> "7" [] n % 10 = 8 -> "8"
            [] n % 10 = 9 -> "9">>

\* the canonical string form of an integer
C18_Canonical(n) == IF n < 0 THEN <<"-">> \o C18_DigitsOf(0 - n) ELSE C18_DigitsOf(n)

\* C18: the number matcher's parse returns a number only for the canonical
\* string form of that number: it fails with E_NOT_A_NUMBER on a text that is
\* not numeric, and with E_NOT_A_CANONICAL_NUMBER_REPRESENTATION whenever the
\* parsed value, converted back to a string, differs from the text ("1e3",
\* "007", "12abc").
C18_NumberParseOnlyCanonical ==
    (parseFn.kind = "number" /\ parseOut # NotCalled) =>
        IF parseFloat(parseIn).nan
        THEN parseOut = [ok |-> FALSE, code |-> "E_NOT_A_NUMBER", args |-> <<parseIn>>]
        ELSE IF C18_Canonical(parseFloat(parseIn).n) # parseIn
        THEN ~parseOut.ok /\ parseOut.code = "E_NOT_A_CANONICAL_NUMBER_REPRESENTATION"
        ELSE parseOut = [ok |-> TRUE, value |-> [js |-> "number", n |-> parseFloat(parseIn).n]]

-----------------------------------------------------------------------------
(* C19 *)

\* C19: the boolean matcher's parse accepts exactly the tokens "true" and
\* "false", returning true and false, and raises an error for every other
\* string, so that parse(serialize(b)) = b for both booleans.
C19_BooleanParseAcceptsTheTwoTokens ==
    (parseFn.kind = "boolean" /\ parseOut # NotCalled) =>
        IF parseIn = <<"t", "r", "u", "e">>
        THEN parseOut = [ok |-> TRUE, value |-> [js |-> "boolean", b |-> TRUE]]
        ELSE IF parseIn = <<"f", "a", "l", "s", "e">>
        THEN parseOut = [ok |-> TRUE, value |-> [js |-> "boolean", b |-> FALSE]]
        ELSE ~parseOut.ok

-----------------------------------------------------------------------------
(* C21 *)

RECURSIVE C21_DecimalValue(_)
\* the decimal value of a run of digits
C21_DecimalValue(t) ==
    IF t = <<>> THEN 0
    ELSE 10 * C21_DecimalValue(SubSeq(t, 1, Len(t) - 1))
         + (CASE t[Len(t)] = "0" -> 0 [] t[Len(t)] = "1" -> 1 [] t[Len(t)] = "2" -> 2
              [] t[Len(t)] = "3" -> 3 [] t[Len(t)] = "4" -> 4 [] t[Len(t)] = "5" -> 5
              [] t[Len(t)] = "6" -> 6 [] t[Len(t)] = "7" -> 7 [] t[Len(t)] = "8" -> 8
              [] t[Len(t)] = "9" -> 9)

\* the substitution pq has no empty variable text, and its first variable
\* that is not accepted holds a ':' followed by something else than a
\* non-empty run of digits
C21_BadSuffix(pq) ==
    LET texts == VarTextsOf(BodyOf(_template, pq))
        at == FirstRefused(texts)
    IN  /\ \A i \in 1..Len(texts) : texts[i] # <<>>
        /\ at # 0
        /\ ReadVar(texts[at]).colon
        /\ ~IsDigits(ReadVar(texts[at]).suffix)

\* the offset of the '}' that follows offset p
C21_ClosingOf(p) ==
    CHOOSE q \in p..(Len(_template) - 1) :
        _template[q + 1] = "}" /\ \A j \in p..(q - 1) : _template[j + 1] # "}"

\* C21: a variable text that, its trailing '*' removed, contains ':' is split
\* at the first ':' only, the name being what is before it and the truncate
\* suffix everything after it: compilation fails with
\* E_BAD_SUBSTITUTION_TRUNCATE unless the whole suffix is a non-empty run of
\* decimal digits ("{a:b}", "{a:}", "{a:1:1}" and "{a:1a}" are refused), and
\* otherwise the truncate length is the decimal value of the suffix.
C21_SplitAtFirstColonOnly ==
    Compiled =>
        /\ \A pq \in SubstitutionsOf(_template) :
              C21_BadSuffix(pq) => RefusedWith("E_BAD_SUBSTITUTION_TRUNCATE", pq)
        /\ thrown = NotThrown =>
              \A i \in 1..Len(_parts) :
                  _parts[i].type = "substitution" =>
                      LET texts == VarTextsOf(BodyOf(_template,
                                      <<_parts[i].index, C21_ClosingOf(_parts[i].index)>>))
                      IN  \A j \in 1..Len(_parts[i].variables) :
                              LET v == ReadVar(texts[j])
                              IN  /\ _parts[i].variables[j].name = v.name
                                  /\ _parts[i].variables[j].hasTruncate = v.colon
                                  /\ v.colon =>
                                        /\ IsDigits(v.suffix)
                                        /\ _parts[i].variables[j].truncate
                                              = C21_DecimalValue(v.suffix)

-----------------------------------------------------------------------------
(* C22 *)

\* the offset i is inside a substitution: the nearest brace before it is a '{'
C22_Inside(i) ==
    \E p \in 0..(i - 1) :
        /\ _template[p + 1] = "{"
        /\ \A j \in (p + 1)..(i - 1) : _template[j + 1] \notin {"{", "}"}

\* the offset of that '{'
C22_OpeningOf(i) ==
    CHOOSE p \in 0..(i - 1) :
        /\ _template[p + 1] = "{"
        /\ \A j \in (p + 1)..(i - 1) : _template[j + 1] \notin {"{", "}"}

\* the character at offset i, inside a substitution, directly follows the
\* '{', the operator written right after the '{', or a ','
C22_NoNameBefore(i) ==
    /\ C22_Inside(i)
    /\ \/ C22_OpeningOf(i) = i - 1
       \/ C22_OpeningOf(i) = i - 2 /\ _template[i] \in {"+", "#", ".", "/", ";", "?", "&"}
       \/ _template[i] = ","

\* the constructor threw the given code with the offsets p and i, unless an
\* error was met before offset i
C22_FailsAt(code, p, i) ==
    /\ Failed
    /\ \/ thrown = [ok |-> FALSE, code |-> code, args |-> <<_template, p, i>>]
       \/ thrown.args[Len(thrown.args)] < i

\* C22: every compiled substitution has at least one variable and no variable
\* with an empty name: a ',' that directly follows '{', the operator or
\* another ',' makes compilation fail with E_EMPTY_SUBSTITUTION_NAME carrying
\* the offsets of the '{' and of that ',', and a '}' that directly follows
\* '{', the operator or a ',' makes it fail with E_BAD_SUBSTITUTION_NAME
\* carrying the offsets of the '{' and of that '}', whatever the variables
\* written before it are ("{:,}" is refused for its empty name, not for the
\* truncate suffix of its first variable).
C22_NoEmptyName ==
    Compiled =>
        /\ \A i \in 0..(Len(_template) - 1) :
              /\ (_template[i + 1] = "," /\ C22_NoNameBefore(i)) =>
                    C22_FailsAt("E_EMPTY_SUBSTITUTION_NAME", C22_OpeningOf(i), i)
              /\ (_template[i + 1] = "}" /\ C22_NoNameBefore(i)) =>
                    C22_FailsAt("E_BAD_SUBSTITUTION_NAME", C22_OpeningOf(i), i)
        /\ thrown = NotThrown =>
              \A i \in 1..Len(_parts) :
                  _parts[i].type = "substitution" =>
                      /\ Len(_parts[i].variables) >= 1
                      /\ \A j \in 1..Len(_parts[i].variables) :
                            _parts[i].variables[j].name # <<>>
        /\ _template = <<"{", ":", ",", "}">> =>
              thrown = [ok |-> FALSE, code |-> "E_BAD_SUBSTITUTION_NAME",
                        args |-> <<_template, 0, 3>>]

\* a ',' after a ',' refused with the offsets of the '{' and of the second
\* ',', or the '}' of "{:,}" refused for the empty name
C22_Witness ==
    /\ Failed
    /\ \/ /\ _template = <<"{", "a", ",", ",">>
          /\ thrown.code = "E_EMPTY_SUBSTITUTION_NAME"
          /\ thrown.args = <<_template, 0, 3>>
          /\ C22_NoNameBefore(3)
       \/ /\ _template = <<"{", ":", ",", "}">>
          /\ thrown.code = "E_BAD_SUBSTITUTION_NAME"
          /\ C22_NoNameBefore(3)

====
